---- MODULE Spec2Model ----
(***************************************************************************)
(* State-machine model of the Autobase smart-contract system:              *)
(*   - the Currency Ledger of src/src/contracts/index.js                   *)
(*     (createCurrencySystem: mint/transfer/burn, writeOperation,          *)
(*     updateFromOperation, generateOperationId, initialize),              *)
(*   - the Apply Dispatcher (createSmartContractSystem.apply),             *)
(*   - the Identity Registry of src/src/identity/index.js.                 *)
(* The external ordered log (Autobase) is modelled at its boundary: a      *)
(* single linearized sequence `log`, per-process appends in flight, and    *)
(* in-order delivery of each node to every process's dispatcher, which     *)
(* appends it to that process's durable view.                              *)
(***************************************************************************)
EXTENDS Integers, Sequences, FiniteSets, TLC

\* ---------------------------------------------------------------- bounds
\* Envelopes that may be handed to autobase.append in one run of the
\* single-writer specification (the restart specification allows one more).
MaxOps == 1
\* Amounts are drawn from 0..MaxAmount.
MaxAmount == 1
\* Date.now() ranges over 1..MaxTime.
MaxTime == 2
\* initialize() invocations that may be in flight on one instance.
MaxInits == 2
\* options.maxSupply handed to createCurrencySystem.
CfgMaxSupply == 2
\* Restarts of one process in one run.
MaxRestarts == 2
\* Public calls made on the Resource Inventory and the Permission Authority
\* of one process in one run.
MaxCalls == 2
MaxView == 2

Addr == {"a", "b"}
\* Resource ids: createResource allocates them, callers may name any.
ResIds == {"r1", "r2"}
Amounts == 0..MaxAmount
\* options.initialHolder || null
NoHolder == "null"
None == "none"

\* The processes sharing the log: a writer and a second process.
Proc == {"w", "r"}

VARIABLES
    opsBound,    \* envelopes the run may still hand to autobase.append, counting those
                 \* in flight and in the log (a rejected append uses one up)
    config,      \* createCurrencySystem's config (maxSupply, initialSupply, initialHolder)
    ledger,      \* per process: balances, totalSupply, transactions, isInitialized, processedOperations
    inits,       \* per process: the initialize() invocations suspended on a log read
    timer,       \* per process: the constructor's setTimeout(initialize, 0) has not fired yet
    pending,     \* per process: envelopes handed to autobase.append, not yet linearized
    log,         \* the log's single total order
    delivered,   \* per process: number of log nodes its dispatcher has consumed
    view,        \* per process: the durable view written by the dispatcher
    now,         \* Date.now()
    lastResult,  \* per process: value returned by the last write-path call
    prev,        \* per process: what the instance reported just before a restart
    authorizedDevices, \* per process: the Identity Registry's map masterKey -> set of device keys
    idInitialized,     \* per process: the Identity Registry's isInitialized flag
    sysIdentity, \* per process: the dispatcher's own state.identityRegistry
    received,    \* per process: the operation last handed to the registry's updateFromOperation
    inventory,   \* per process: the Resource Inventory (resources, holdings, operations, isInitialized)
    perm,        \* per process: the Permission Authority (rooms, roles, members, channels)
    calls,       \* per process: public calls made on the inventory and the authority
    callsBound,  \* public calls one process may make in the run (fixed by Init)
    returned,    \* per process: what each call whose append is in flight gave its caller
    sysState     \* per process: the dispatcher's state.permissions and state.tokenGated

ledgerVars == <<config, ledger, inits, timer, prev>>
logVars == <<opsBound, pending, log, delivered, view, now, returned>>
identityVars == <<authorizedDevices, idInitialized, sysIdentity, received>>
extVars == <<inventory, perm, calls, callsBound, sysState>>
vars == <<ledgerVars, logVars, identityVars, lastResult, extVars>>

\* ------------------------------------------------------- pure helpers

RECURSIVE SumOver(_, _)
SumOver(f, S) ==
    IF S = {} THEN 0
    ELSE LET x == CHOOSE y \in S : TRUE IN f[x] + SumOver(f, S \ {x})

\* balanceOf(account): balances.get(key) || 0. The Map is modelled as a total
\* function with 0 for absent keys.
balanceOf(L, account) == L.balances[account]

EmptyBalances == [x \in Addr |-> 0]

\* A history record pushed by the *Internal functions. The Date.now() stamp
\* and the minter/burner ids are carried by the code but decide nothing.
Tx(type, from, to, amount, status, reason) ==
    [type |-> type, from |-> from, to |-> to, amount |-> amount,
     status |-> status, reason |-> reason]

\* State of a ledger instance right after createCurrencySystem returns.
ConstructLedger(cfg) ==
    LET seeded == cfg.initialSupply > 0 /\ cfg.initialHolder # NoHolder IN
    [balances |-> IF seeded
                  THEN [EmptyBalances EXCEPT ![cfg.initialHolder] = cfg.initialSupply]
                  ELSE EmptyBalances,
     totalSupply |-> IF seeded THEN cfg.initialSupply ELSE 0,
     transactions |-> <<>>,
     isInitialized |-> FALSE,
     processedOperations |-> {}]

\* A mint that credits the recipient and forgets totalSupply.
mintInternal_SupplyNotUpdated(L, cfg, to, amount) ==
    IF L.totalSupply + amount > cfg.maxSupply
    THEN [L EXCEPT !.transactions =
            Append(@, Tx("MINT", "-", to, amount, "failed", "Would exceed max supply"))]
    ELSE [L EXCEPT !.balances[to] = @ + amount,
                   !.transactions =
            Append(@, Tx("MINT", "-", to, amount, "success", "-"))]

mintInternal(L, cfg, to, amount) ==
    IF L.totalSupply + amount > cfg.maxSupply
    THEN [L EXCEPT !.transactions =
            Append(@, Tx("MINT", "-", to, amount, "failed", "Would exceed max supply"))]
    ELSE [L EXCEPT !.balances[to] = @ + amount,
                   !.totalSupply = @ + amount,
                   !.transactions =
            Append(@, Tx("MINT", "-", to, amount, "success", "-"))]

\* A transfer that skips the balance check.
transferInternal_NoBalanceCheck(L, from, to, amount) ==
    LET debited == [L.balances EXCEPT ![from] = @ - amount]
        credited == [debited EXCEPT ![to] = debited[to] + amount]
    IN [L EXCEPT !.balances = credited,
                 !.transactions =
            Append(@, Tx("TRANSFER", from, to, amount, "success", "-"))]

transferInternal(L, from, to, amount) ==
    LET fromBalance == L.balances[from] IN
    IF fromBalance < amount
    THEN [L EXCEPT !.transactions =
            Append(@, Tx("TRANSFER", from, to, amount, "failed", "Insufficient balance"))]
    ELSE LET debited == [L.balances EXCEPT ![from] = fromBalance - amount]
             credited == [debited EXCEPT ![to] = debited[to] + amount]
         IN [L EXCEPT !.balances = credited,
                      !.transactions =
            Append(@, Tx("TRANSFER", from, to, amount, "success", "-"))]

burnInternal(L, from, amount) ==
    LET fromBalance == L.balances[from] IN
    IF fromBalance < amount
    THEN [L EXCEPT !.transactions =
            Append(@, Tx("BURN", from, "-", amount, "failed", "Insufficient balance"))]
    ELSE [L EXCEPT !.balances[from] = fromBalance - amount,
                   !.totalSupply = @ - amount,
                   !.transactions =
            Append(@, Tx("BURN", from, "-", amount, "success", "-"))]

\* The envelope built by writeOperation: {system, data: {type, ...data}, timestamp}.
Envelope(system, data, ts) == [system |-> system, data |-> data, timestamp |-> ts]

MintData(to, amount) == [type |-> "MINT", to |-> to, amount |-> amount]
TransferData(from, to, amount) ==
    [type |-> "TRANSFER", from |-> from, to |-> to, amount |-> amount]
BurnData(from, amount) == [type |-> "BURN", from |-> from, amount |-> amount]

\* A field that is absent from an envelope reads as undefined; absent data
\* is the record NoData. A node without a value has neither field.
Undefined == "undefined"
NoData == [type |-> Undefined]
EmptyNode == [system |-> Undefined, data |-> NoData, timestamp |-> 0]

\* What generateOperationId returns for an envelope without a system, data or
\* a truthy timestamp.
NullId == <<>>

\* generateOperationId: idParts.join("_"). The parts are kept as a tuple
\* (addresses are hex strings and never contain the separator). The
\* type-specific fields are pushed only when all of them are truthy, so an
\* amount of 0 leaves the id at (system, type, timestamp). An absent
\* timestamp reads as 0, which is falsy like undefined.
generateOperationId(op) ==
    LET d == op.data
        base == <<op.system, d.type, op.timestamp>>
    IN IF op.system = Undefined \/ d = NoData \/ op.timestamp = 0 THEN NullId
       ELSE CASE d.type = "MINT" ->
                   IF d.amount # 0 THEN base \o <<d.to, d.amount>> ELSE base
              [] d.type = "TRANSFER" ->
                   IF d.amount # 0 THEN base \o <<d.from, d.to, d.amount>> ELSE base
              [] d.type = "BURN" ->
                   IF d.amount # 0 THEN base \o <<d.from, d.amount>> ELSE base
              [] OTHER -> base

\* JavaScript's true/false as returned to the caller; None before any call.
Bool(b) == IF b THEN "true" ELSE "false"

\* balances.get(account) || 0 followed by balances.set(account, ...): the Map
\* takes any key, the key undefined of an envelope without the field included.
withAccount(L, account) ==
    IF account \in DOMAIN L.balances THEN L
    ELSE [L EXCEPT !.balances =
            [x \in DOMAIN L.balances \cup {account} |->
                IF x \in DOMAIN L.balances THEN L.balances[x] ELSE 0]]

\* What updateFromOperation returns: true after the switch case of a known
\* type has run, false for another system, absent data or an unknown type,
\* and false from its catch when the case throws: each case logs
\* to.slice(0, 10) or from.slice(0, 10) after the internal function has run,
\* a TypeError for an envelope without that field.
updateFromOperationReturns(op) ==
    IF op.system # "currency" \/ op.data = NoData THEN "false"
    ELSE CASE op.data.type = "MINT" -> Bool(op.data.to # Undefined)
           [] op.data.type = "TRANSFER" ->
                Bool(op.data.from # Undefined /\ op.data.to # Undefined)
           [] op.data.type = "BURN" -> Bool(op.data.from # Undefined)
           [] OTHER -> "false"

\* createCurrencySystem.updateFromOperation applied to ledger record L.
updateFromOperation(L, cfg, op) ==
    IF op.system # "currency" THEN L
    ELSE CASE op.data.type = "MINT" ->
                mintInternal(withAccount(L, op.data.to), cfg, op.data.to, op.data.amount)
           [] op.data.type = "TRANSFER" ->
                transferInternal(L, op.data.from, op.data.to, op.data.amount)
           [] op.data.type = "BURN" -> burnInternal(L, op.data.from, op.data.amount)
           [] OTHER -> L

\* writeOperation up to its await: the id is recorded as processed and the
\* envelope is handed to autobase.append.
markProcessed(L, op) ==
    IF generateOperationId(op) = NullId THEN L
    ELSE [L EXCEPT !.processedOperations = @ \cup {generateOperationId(op)}]

LastStatus(L) == L.transactions[Len(L.transactions)].status

\* ------------------------------------------------------------- ledger
\* The configurations createCurrencySystem is constructed with.
DefaultConfig ==
    [maxSupply |-> CfgMaxSupply, initialSupply |-> 0, initialHolder |-> NoHolder]

Configs ==
    {DefaultConfig}
    \cup {[maxSupply |-> CfgMaxSupply, initialSupply |-> s, initialHolder |-> "a"] :
            s \in {CfgMaxSupply + 1}}

EmptyRegistry == [m \in {} |-> {}]

\* No restart has happened yet.
NoPrev ==
    [restarts |-> 0, balances |-> EmptyBalances, totalSupply |-> 0,
     holdings |-> [x \in Addr |-> [r \in ResIds |-> 0]], calls |-> 0, logLen |-> 0,
     pureReplay |-> FALSE]

OpsIssued == Len(log) + Len(pending["w"]) + Len(pending["r"])

\* initialize(): "Reset state before loading".
resetLedger(L) ==
    [L EXCEPT !.balances = EmptyBalances, !.transactions = <<>>,
              !.totalSupply = 0, !.processedOperations = {}]

\* The synchronous head of initialize(): the reset, then either the first
\* await autobase.view.get(0) or, for an empty view, await autobase.update().
newInvocation(length) ==
    [i |-> 0, length |-> length, phase |-> IF length > 0 THEN "loop" ELSE "update"]

\* Values a view can hold besides envelopes: a node whose value is null
\* (view.get resolves to a falsy value) and a string that is not JSON.
NullValue == [value |-> "null"]
Unparsable == [text |-> "{"]

\* The value parses to an object whose fields the loop can read. For a null
\* value the loop continues; for a string that is not JSON, JSON.parse throws
\* and the iteration's catch logs the error.
parses(nodeValue) == "system" \in DOMAIN nodeValue

\* A loop without the duplicate check.
replayEntry_NoDedup(L, cfg, nodeValue) ==
    IF ~parses(nodeValue) THEN L
    ELSE IF ~(nodeValue.system = "currency" /\ nodeValue.data # NoData) THEN L
    ELSE markProcessed(updateFromOperation(L, cfg, nodeValue), nodeValue)

\* One iteration of initialize()'s loop on the value read from the view:
\* only an entry with system "currency" and data is processed; it is skipped
\* when its id is not null and already processed, and otherwise handed to
\* updateFromOperation and, when its id is not null, marked as processed.
replayEntry(L, cfg, nodeValue) ==
    IF ~parses(nodeValue) THEN L
    ELSE IF ~(nodeValue.system = "currency" /\ nodeValue.data # NoData) THEN L
    ELSE LET opId == generateOperationId(nodeValue) IN
         IF opId # NullId /\ opId \in L.processedOperations THEN L
         ELSE markProcessed(updateFromOperation(L, cfg, nodeValue), nodeValue)

RemoveAt(s, k) == SubSeq(s, 1, k - 1) \o SubSeq(s, k + 1, Len(s))

LedgerFrame == UNCHANGED <<identityVars, extVars>>

\* setTimeout(() => initialize(), 0) fires.
TimerFire(p) ==
    /\ timer[p]
    /\ timer' = [timer EXCEPT ![p] = FALSE]
    /\ IF ledger[p].isInitialized
       THEN UNCHANGED <<ledger, inits>>
       ELSE /\ ledger' = [ledger EXCEPT ![p] = resetLedger(@)]
            /\ inits' = [inits EXCEPT ![p] = Append(@, newInvocation(Len(view[p])))]
    /\ UNCHANGED <<config, lastResult, prev, logVars>>
    /\ LedgerFrame

\* forceInitialize() (an alias of initialize) called by the application.
\* A call on an initialized instance returns at once and changes nothing.
ForceInitialize(p) ==
    /\ ~ledger[p].isInitialized
    /\ Len(inits[p]) + (IF timer[p] THEN 1 ELSE 0) < MaxInits
    /\ ledger' = [ledger EXCEPT ![p] = resetLedger(@)]
    /\ inits' = [inits EXCEPT ![p] = Append(@, newInvocation(Len(view[p])))]
    /\ UNCHANGED <<config, timer, lastResult, prev, logVars>>
    /\ LedgerFrame

\* A loop whose body is not guarded: an entry that cannot be read ends the
\* invocation in initialize()'s outer catch, which leaves isInitialized false.
InitStep_AbortsOnMalformed(p, k) ==
    /\ k \in 1..Len(inits[p])
    /\ inits[p][k].phase = "loop"
    /\ LET inv == inits[p][k]
           op == view[p][inv.i + 1]
           next == IF inv.i + 1 < inv.length
                   THEN [inv EXCEPT !.i = inv.i + 1]
                   ELSE [inv EXCEPT !.i = inv.i + 1, !.phase = "update"]
       IN IF parses(op)
          THEN /\ ledger' = [ledger EXCEPT ![p] = replayEntry(@, config, op)]
               /\ inits' = [inits EXCEPT ![p][k] = next]
          ELSE /\ ledger' = ledger
               /\ inits' = [inits EXCEPT ![p] = RemoveAt(@, k)]
    /\ UNCHANGED <<config, timer, lastResult, prev, logVars>>
    /\ LedgerFrame

\* await autobase.view.get(i) of invocation k resolves; the loop body runs.
InitStep(p, k) ==
    /\ k \in 1..Len(inits[p])
    /\ inits[p][k].phase = "loop"
    /\ LET inv == inits[p][k]
           op == view[p][inv.i + 1]
           next == IF inv.i + 1 < inv.length
                   THEN [inv EXCEPT !.i = inv.i + 1]
                   ELSE [inv EXCEPT !.i = inv.i + 1, !.phase = "update"]
       IN /\ ledger' = [ledger EXCEPT ![p] = replayEntry(@, config, op)]
          /\ inits' = [inits EXCEPT ![p][k] = next]
    /\ UNCHANGED <<config, timer, lastResult, prev, logVars>>
    /\ LedgerFrame

\* await autobase.update() of invocation k resolves (every known node has
\* been delivered); isInitialized = true.
InitFinish(p, k) ==
    /\ k \in 1..Len(inits[p])
    /\ inits[p][k].phase = "update"
    /\ delivered[p] = Len(log)
    /\ ledger' = [ledger EXCEPT ![p].isInitialized = TRUE]
    /\ inits' = [inits EXCEPT ![p] = RemoveAt(@, k)]
    /\ UNCHANGED <<config, timer, lastResult, prev, logVars>>
    /\ LedgerFrame

\* A write path that hands the envelope to the log and leaves the local
\* ledger to be updated on delivery.
WriteCall_NoLocalApply(p, applied, data) ==
    LET op == Envelope("currency", data, now) IN
    /\ OpsIssued < opsBound
    /\ ledger' = [ledger EXCEPT ![p] = markProcessed(@, op)]
    /\ pending' = [pending EXCEPT ![p] = Append(@, op)]
    /\ lastResult' = [lastResult EXCEPT ![p] = Bool(LastStatus(applied) = "success")]
    /\ returned' = [returned EXCEPT ![p] = Append(@, lastResult'[p])]
    /\ UNCHANGED <<config, inits, timer, prev, opsBound, log, delivered, view, now>>
    /\ LedgerFrame

\* The write path: apply locally, then writeOperation (mark the id, hand the
\* envelope to autobase.append without awaiting it), then report the status
\* of the last history record.
WriteCall(p, applied, data) ==
    LET op == Envelope("currency", data, now) IN
    /\ OpsIssued < opsBound
    /\ ledger' = [ledger EXCEPT ![p] = markProcessed(applied, op)]
    /\ pending' = [pending EXCEPT ![p] = Append(@, op)]
    /\ lastResult' = [lastResult EXCEPT ![p] = Bool(LastStatus(applied) = "success")]
    /\ returned' = [returned EXCEPT ![p] = Append(@, lastResult'[p])]
    /\ UNCHANGED <<config, inits, timer, prev, opsBound, log, delivered, view, now>>
    /\ LedgerFrame

Mint(p, to, amount) ==
    WriteCall(p, mintInternal(ledger[p], config, to, amount), MintData(to, amount))

Transfer(p, from, to, amount) ==
    WriteCall(p, transferInternal(ledger[p], from, to, amount),
              TransferData(from, to, amount))

Burn(p, from, amount) ==
    WriteCall(p, burnInternal(ledger[p], from, amount), BurnData(from, amount))

\* -------------------------------------------------- resource inventory
\* Amounts handed to the inventory: nothing or one lot.
ResAmounts == {0, MaxAmount}
\* maxSupply handed to createResource: 0 (unlimited) or one lot.
ResMaxSupplies == {0, MaxAmount}

NoQuantities == [r \in ResIds |-> 0]

\* options.resources as a map resource id -> maxSupply;
\* createSmartContractSystem passes none.
NoResources == [r \in {} |-> 0]
ResourceOptions == {NoResources, [r \in {"r1"} |-> MaxAmount]}

\* State of an inventory right after createResourceSystem(autobase, options)
\* returns. `resources` and `holdings` are Maps, modelled as functions on the
\* keys present; a holder's inner Map is total with 0 for absent keys
\* (get(resourceId) || 0).
ConstructInventory(options) ==
    [options |-> options,
     resources |-> [r \in DOMAIN options |->
                      [maxSupply |-> options[r], currentSupply |-> 0]],
     holdings |-> [x \in {} |-> 0],
     operations |-> <<>>,
     isInitialized |-> FALSE]

\* A record pushed onto `operations` (the Date.now() stamp, names and ids
\* of minter/creator are carried by the code but decide nothing).
ResOp(type, resourceId, from, to, amount, status, reason) ==
    [type |-> type, resourceId |-> resourceId, from |-> from, to |-> to,
     amount |-> amount, status |-> status, reason |-> reason]

\* holdings.get(address).get(resourceId) || 0
holdingOf(R, address, resourceId) ==
    IF address \in DOMAIN R.holdings THEN R.holdings[address][resourceId] ELSE 0

\* getHoldings(account), read as the quantity per resource id.
getHoldings(R, account) ==
    IF account \in DOMAIN R.holdings THEN R.holdings[account] ELSE NoQuantities

\* holdings.get(address).set(resourceId, quantity), creating the inner Map
\* when the address has none.
setHolding(H, address, resourceId, quantity) ==
    [x \in DOMAIN H \cup {address} |->
        IF x = address
        THEN [(IF address \in DOMAIN H THEN H[address] ELSE NoQuantities)
                 EXCEPT ![resourceId] = quantity]
        ELSE H[x]]

setResource(T, resourceId, resource) ==
    [r \in DOMAIN T \cup {resourceId} |-> IF r = resourceId THEN resource ELSE T[r]]

createResourceInternal(R, resourceId, maxSupply) ==
    [R EXCEPT !.resources = setResource(@, resourceId,
                                [maxSupply |-> maxSupply, currentSupply |-> 0]),
              !.operations = Append(@,
                  ResOp("CREATE_RESOURCE", resourceId, "-", "-", maxSupply, "success", "-"))]

\* A mint that never compares against maxSupply.
mintResourceInternal_NoSupplyCheck(R, resourceId, to, amount) ==
    IF resourceId \notin DOMAIN R.resources
    THEN [R EXCEPT !.operations = Append(@,
            ResOp("MINT_RESOURCE", resourceId, "-", to, amount, "failed",
                  "Resource does not exist"))]
    ELSE [R EXCEPT
            !.holdings = setHolding(@, to, resourceId,
                                    holdingOf(R, to, resourceId) + amount),
            !.resources[resourceId].currentSupply = @ + amount,
            !.operations = Append(@,
               ResOp("MINT_RESOURCE", resourceId, "-", to, amount, "success", "-"))]

mintResourceInternal(R, resourceId, to, amount) ==
    IF resourceId \notin DOMAIN R.resources
    THEN [R EXCEPT !.operations = Append(@,
            ResOp("MINT_RESOURCE", resourceId, "-", to, amount, "failed",
                  "Resource does not exist"))]
    ELSE LET resource == R.resources[resourceId] IN
         IF resource.maxSupply > 0 /\ resource.currentSupply + amount > resource.maxSupply
         THEN [R EXCEPT !.operations = Append(@,
                 ResOp("MINT_RESOURCE", resourceId, "-", to, amount, "failed",
                       "Would exceed max supply"))]
         ELSE [R EXCEPT
                 !.holdings = setHolding(@, to, resourceId,
                                         holdingOf(R, to, resourceId) + amount),
                 !.resources[resourceId].currentSupply = @ + amount,
                 !.operations = Append(@,
                    ResOp("MINT_RESOURCE", resourceId, "-", to, amount, "success", "-"))]

\* A transfer that credits the receiver and leaves the sender's holding.
transferResourceInternal_NoDebit(R, resourceId, from, to, amount) ==
    IF from \notin DOMAIN R.holdings
    THEN [R EXCEPT !.operations = Append(@,
            ResOp("TRANSFER_RESOURCE", resourceId, from, to, amount, "failed",
                  "Sender has no holdings"))]
    ELSE LET senderAmount == R.holdings[from][resourceId] IN
         IF senderAmount < amount
         THEN [R EXCEPT !.operations = Append(@,
                 ResOp("TRANSFER_RESOURCE", resourceId, from, to, amount, "failed",
                       "Insufficient resources"))]
         ELSE [R EXCEPT
                 !.holdings = setHolding(@, to, resourceId,
                                         holdingOf(R, to, resourceId) + amount),
                 !.operations = Append(@,
                    ResOp("TRANSFER_RESOURCE", resourceId, from, to, amount, "success", "-"))]

transferResourceInternal(R, resourceId, from, to, amount) ==
    IF from \notin DOMAIN R.holdings
    THEN [R EXCEPT !.operations = Append(@,
            ResOp("TRANSFER_RESOURCE", resourceId, from, to, amount, "failed",
                  "Sender has no holdings"))]
    ELSE LET senderAmount == R.holdings[from][resourceId] IN
         IF senderAmount < amount
         THEN [R EXCEPT !.operations = Append(@,
                 ResOp("TRANSFER_RESOURCE", resourceId, from, to, amount, "failed",
                       "Insufficient resources"))]
         ELSE LET debited == setHolding(R.holdings, from, resourceId, senderAmount - amount)
                  receiverAmount == IF to \in DOMAIN debited THEN debited[to][resourceId] ELSE 0
              IN [R EXCEPT
                    !.holdings = setHolding(debited, to, resourceId, receiverAmount + amount),
                    !.operations = Append(@,
                       ResOp("TRANSFER_RESOURCE", resourceId, from, to, amount, "success", "-"))]

\* A consume that debits the holder and leaves currentSupply.
consumeResourceInternal_SupplyNotDecremented(R, resourceId, from, amount) ==
    IF from \notin DOMAIN R.holdings
    THEN [R EXCEPT !.operations = Append(@,
            ResOp("CONSUME_RESOURCE", resourceId, from, "-", amount, "failed",
                  "User has no holdings"))]
    ELSE LET userAmount == R.holdings[from][resourceId] IN
         IF userAmount < amount
         THEN [R EXCEPT !.operations = Append(@,
                 ResOp("CONSUME_RESOURCE", resourceId, from, "-", amount, "failed",
                       "Insufficient resources"))]
         ELSE [R EXCEPT
                 !.holdings = setHolding(@, from, resourceId, userAmount - amount),
                 !.operations = Append(@,
                    ResOp("CONSUME_RESOURCE", resourceId, from, "-", amount,
                          "success", "-"))]

\* consumeResourceInternal. When the checks pass for a resource id that is
\* not in `resources`, `resource.currentSupply -= amount` throws after the
\* holding was written; updateFromOperation's catch swallows the error and
\* no record is pushed.
consumeResourceInternal(R, resourceId, from, amount) ==
    IF from \notin DOMAIN R.holdings
    THEN [R EXCEPT !.operations = Append(@,
            ResOp("CONSUME_RESOURCE", resourceId, from, "-", amount, "failed",
                  "User has no holdings"))]
    ELSE LET userAmount == R.holdings[from][resourceId] IN
         IF userAmount < amount
         THEN [R EXCEPT !.operations = Append(@,
                 ResOp("CONSUME_RESOURCE", resourceId, from, "-", amount, "failed",
                       "Insufficient resources"))]
         ELSE LET written == [R EXCEPT !.holdings =
                                setHolding(@, from, resourceId, userAmount - amount)]
              IN IF resourceId \notin DOMAIN R.resources
                 THEN written
                 ELSE [written EXCEPT
                         !.resources[resourceId].currentSupply = @ - amount,
                         !.operations = Append(@,
                            ResOp("CONSUME_RESOURCE", resourceId, from, "-", amount,
                                  "success", "-"))]

CreateResourceData(resourceId, maxSupply) ==
    [type |-> "CREATE_RESOURCE", resourceId |-> resourceId, maxSupply |-> maxSupply]
MintResourceData(resourceId, to, amount) ==
    [type |-> "MINT_RESOURCE", resourceId |-> resourceId, to |-> to, amount |-> amount]
TransferResourceData(resourceId, from, to, amount) ==
    [type |-> "TRANSFER_RESOURCE", resourceId |-> resourceId, from |-> from, to |-> to,
     amount |-> amount]
ConsumeResourceData(resourceId, from, amount) ==
    [type |-> "CONSUME_RESOURCE", resourceId |-> resourceId, from |-> from,
     amount |-> amount]

\* createResourceSystem.updateFromOperation applied to inventory record R.
resourceUpdateFromOperation(R, op) ==
    IF op.system # "resource" THEN R
    ELSE LET d == op.data IN
         CASE d.type = "CREATE_RESOURCE" ->
                createResourceInternal(R, d.resourceId, d.maxSupply)
           [] d.type = "MINT_RESOURCE" ->
                mintResourceInternal(R, d.resourceId, d.to, d.amount)
           [] d.type = "TRANSFER_RESOURCE" ->
                transferResourceInternal(R, d.resourceId, d.from, d.to, d.amount)
           [] d.type = "CONSUME_RESOURCE" ->
                consumeResourceInternal(R, d.resourceId, d.from, d.amount)
           [] OTHER -> R

\* What the inventory's updateFromOperation returns: true after the switch
\* case of a known type has run, false for another system, absent data or an
\* unknown type, and false from its catch when the case throws: the mint
\* case logs to.slice(0, 10) after mintResourceInternal has run, and
\* consumeResourceInternal throws on a resource id that is not in `resources`
\* once its checks have passed.
resourceUpdateFromOperationReturns(R, op) ==
    IF op.system # "resource" \/ op.data = NoData THEN "false"
    ELSE LET d == op.data IN
         CASE d.type = "CREATE_RESOURCE" -> "true"
           [] d.type = "MINT_RESOURCE" -> Bool(d.to # Undefined)
           [] d.type = "TRANSFER_RESOURCE" -> "true"
           [] d.type = "CONSUME_RESOURCE" ->
                Bool(~(/\ d.from \in DOMAIN R.holdings
                       /\ R.holdings[d.from][d.resourceId] >= d.amount
                       /\ d.resourceId \notin DOMAIN R.resources))
           [] OTHER -> "false"

\* applyResourceOperations([operation]): the write path hands the operation
\* to updateFromOperation and never to writeOperation.
applyResourceOperations(R, data) ==
    resourceUpdateFromOperation(R, [system |-> "resource", data |-> data])

\* operations[operations.length - 1].status === "success"; reading .status
\* of undefined throws when no record was ever pushed.
lastOperationStatus(R) ==
    IF R.operations = <<>> THEN "throw"
    ELSE Bool(R.operations[Len(R.operations)].status = "success")

InventoryFrame ==
    UNCHANGED <<ledgerVars, logVars, identityVars, perm, sysState>>

InventoryCall(p, after, result) ==
    /\ calls[p] < callsBound
    /\ calls' = [calls EXCEPT ![p] = @ + 1]
    /\ inventory' = [inventory EXCEPT ![p] = after]
    /\ lastResult' = [lastResult EXCEPT ![p] = result]
    /\ UNCHANGED callsBound
    /\ InventoryFrame

\* createResource: the id is resource_<Date.now()>_<random>, one that no
\* resource has yet; the created resource object is returned.
CreateResource(p, resourceId, maxSupply) ==
    /\ resourceId \notin DOMAIN inventory[p].resources
    /\ InventoryCall(p, applyResourceOperations(inventory[p],
                            CreateResourceData(resourceId, maxSupply)), "object")

MintResource(p, resourceId, to, amount) ==
    LET after == applyResourceOperations(inventory[p],
                                         MintResourceData(resourceId, to, amount))
    IN InventoryCall(p, after, lastOperationStatus(after))

TransferResource(p, resourceId, from, to, amount) ==
    LET after == applyResourceOperations(inventory[p],
                     TransferResourceData(resourceId, from, to, amount))
    IN InventoryCall(p, after, lastOperationStatus(after))

ConsumeResource(p, resourceId, from, amount) ==
    LET after == applyResourceOperations(inventory[p],
                     ConsumeResourceData(resourceId, from, amount))
    IN InventoryCall(p, after, lastOperationStatus(after))

\* The inventory's updateFromOperation(operation) called with an envelope
\* read from the log.
ResourceUpdateFromOperation(p, op) ==
    InventoryCall(p, resourceUpdateFromOperation(inventory[p], op),
                  resourceUpdateFromOperationReturns(inventory[p], op))

\* The smart-contract system's addResource(userPublicKey, resourceId, quantity).
AddResource(p, user, resourceId, quantity) ==
    IF quantity > 0 THEN MintResource(p, resourceId, user, quantity)
    ELSE IF quantity < 0 THEN ConsumeResource(p, resourceId, user, 0 - quantity)
    ELSE InventoryCall(p, inventory[p], "true")

\* getResourceQuantity(userPublicKey, resourceId): holdings[resourceId] || 0
getResourceQuantity(R, user, resourceId) == getHoldings(R, user)[resourceId]

\* The inventory's initialize(): await autobase.update(), then
\* isInitialized = true. It reads nothing from the view.
ResourceInitialize(p) ==
    /\ ~inventory[p].isInitialized
    /\ delivered[p] = Len(log)
    /\ inventory' = [inventory EXCEPT ![p].isInitialized = TRUE]
    /\ UNCHANGED <<ledgerVars, logVars, identityVars, lastResult, perm, calls, callsBound,
                   sysState>>

\* ------------------------------------------------ permission authority
RoomIds == {"x", "y"}
Users == Addr
RoleNames == {"MEMBER", "MODERATOR", "ADMIN"}
ChannelNames == {"general", "c1"}

\* DEFAULT_PERMISSIONS[roleName]
DEFAULT_PERMISSIONS(roleName) ==
    [canRead |-> TRUE, canWrite |-> TRUE,
     canInvite |-> roleName \in {"MODERATOR", "ADMIN"},
     canManagePermissions |-> roleName \in {"MODERATOR", "ADMIN"},
     canManageChannels |-> roleName \in {"MODERATOR", "ADMIN"},
     canManageRoom |-> roleName = "ADMIN"]

\* `${roomId}:${roleName}`, `${roomId}:${userId}` and `${roomId}:<channel>`
\* are kept as pairs; a role string a caller passes without a room prefix is
\* the one-element tuple of its name.
RoleId(roomId, roleName) == <<roomId, roleName>>
MemberKey(roomId, userId) == <<roomId, userId>>
ChannelId(roomId, channel) == <<roomId, channel>>

\* createPermissionSystem: four empty Maps.
ConstructPermissions ==
    [rooms |-> [r \in {} |-> 0],
     roles |-> [r \in {} |-> 0],
     members |-> [m \in {} |-> 0],
     channels |-> [c \in {} |-> 0]]

\* map.set(key, value)
MapSet(M, key, value) ==
    [k \in DOMAIN M \cup {key} |-> IF k = key THEN value ELSE M[k]]

\* map.delete(key)
MapDelete(M, key) == [k \in DOMAIN M \ {key} |-> M[k]]

\* An operation handed to apply: the actor is
\* op.creatorId || op.inviterId || op.updaterId || op.deleterId.
PermOp(type, roomId, actor, memberId, role, channelId, name) ==
    [type |-> type, roomId |-> roomId, actor |-> actor, memberId |-> memberId,
     role |-> role, channelId |-> channelId, name |-> name]

\* isOperationAuthorized reads role.permissions of an undefined role when
\* the member's role id is not in the role table: a TypeError leaves apply.
authorizationThrows(P, op) ==
    /\ op.type # "CREATE_ROOM"
    /\ MemberKey(op.roomId, op.actor) \in DOMAIN P.members
    /\ P.members[MemberKey(op.roomId, op.actor)].role \notin DOMAIN P.roles

\* A check that lets users without a membership record through.
isOperationAuthorized_NonMembersPass(P, op) ==
    IF op.type = "CREATE_ROOM" THEN TRUE
    ELSE LET memberKey == MemberKey(op.roomId, op.actor) IN
         IF memberKey \notin DOMAIN P.members THEN TRUE
         ELSE LET role == P.roles[P.members[memberKey].role] IN
              CASE op.type = "ADD_MEMBER" -> role.permissions.canInvite
                [] op.type = "UPDATE_MEMBER_ROLE" -> role.permissions.canManagePermissions
                [] op.type \in {"CREATE_CHANNEL", "DELETE_CHANNEL", "UPDATE_CHANNEL"} ->
                     role.permissions.canManageChannels
                [] OTHER -> FALSE

isOperationAuthorized(P, op) ==
    IF op.type = "CREATE_ROOM" THEN TRUE
    ELSE LET memberKey == MemberKey(op.roomId, op.actor) IN
         IF memberKey \notin DOMAIN P.members THEN FALSE
         ELSE LET role == P.roles[P.members[memberKey].role] IN
              CASE op.type = "ADD_MEMBER" -> role.permissions.canInvite
                [] op.type = "UPDATE_MEMBER_ROLE" -> role.permissions.canManagePermissions
                [] op.type \in {"CREATE_CHANNEL", "DELETE_CHANNEL", "UPDATE_CHANNEL"} ->
                     role.permissions.canManageChannels
                [] OTHER -> FALSE

addMemberInternal(P, roomId, memberId, roleId, inviterId) ==
    [P EXCEPT !.members = MapSet(@, MemberKey(roomId, memberId),
        [userId |-> memberId, roomId |-> roomId, role |-> roleId, invitedBy |-> inviterId])]

updateMemberRoleInternal(P, roomId, memberId, roleId) ==
    LET memberKey == MemberKey(roomId, memberId) IN
    IF memberKey \in DOMAIN P.members
    THEN [P EXCEPT !.members[memberKey].role = roleId]
    ELSE P

createChannelInternal(P, roomId, channelId, name, creatorId) ==
    [P EXCEPT !.channels = MapSet(@, channelId,
        [roomId |-> roomId, name |-> name, createdBy |-> creatorId])]

deleteChannelInternal(P, channelId) ==
    [P EXCEPT !.channels = MapDelete(@, channelId)]

\* Object.assign(channel, updates) with updates = {name}.
updateChannelInternal(P, channelId, name) ==
    IF channelId \in DOMAIN P.channels
    THEN [P EXCEPT !.channels[channelId].name = name]
    ELSE P

RECURSIVE seedRoles(_, _, _)
seedRoles(T, roomId, names) ==
    IF names = {} THEN T
    ELSE LET n == CHOOSE x \in names : TRUE IN
         seedRoles(MapSet(T, RoleId(roomId, n),
                          [name |-> n, roomId |-> roomId,
                           permissions |-> DEFAULT_PERMISSIONS(n)]),
                   roomId, names \ {n})

\* A room creation that stops before the default channel.
createRoomInternal_NoGeneralChannel(P, roomId, creatorId) ==
    LET withRoom == [P EXCEPT !.rooms = MapSet(@, roomId, [createdBy |-> creatorId]),
                              !.roles = seedRoles(@, roomId, RoleNames)]
    IN addMemberInternal(withRoom, roomId, creatorId, RoleId(roomId, "ADMIN"), creatorId)

createRoomInternal(P, roomId, creatorId) ==
    LET withRoom == [P EXCEPT !.rooms = MapSet(@, roomId, [createdBy |-> creatorId]),
                              !.roles = seedRoles(@, roomId, RoleNames)]
        withAdmin == addMemberInternal(withRoom, roomId, creatorId,
                                       RoleId(roomId, "ADMIN"), creatorId)
    IN createChannelInternal(withAdmin, roomId, ChannelId(roomId, "general"),
                             "General", creatorId)

\* apply([op]) of the Permission Authority: the state it leaves, also when
\* the authorization check throws.
permApply(P, op) ==
    IF authorizationThrows(P, op) THEN P
    ELSE IF ~isOperationAuthorized(P, op) THEN P
    ELSE CASE op.type = "CREATE_ROOM" -> createRoomInternal(P, op.roomId, op.actor)
           [] op.type = "ADD_MEMBER" ->
                addMemberInternal(P, op.roomId, op.memberId, op.role, op.actor)
           [] op.type = "UPDATE_MEMBER_ROLE" ->
                updateMemberRoleInternal(P, op.roomId, op.memberId, op.role)
           [] op.type = "CREATE_CHANNEL" ->
                createChannelInternal(P, op.roomId, op.channelId, op.name, op.actor)
           [] op.type = "DELETE_CHANNEL" -> deleteChannelInternal(P, op.channelId)
           [] op.type = "UPDATE_CHANNEL" -> updateChannelInternal(P, op.channelId, op.name)
           [] OTHER -> P

\* One call of apply([op]), directly or through a room object's method.
PermApply(p, op) ==
    /\ calls[p] < callsBound
    /\ calls' = [calls EXCEPT ![p] = @ + 1]
    /\ perm' = [perm EXCEPT ![p] = permApply(@, op)]
    /\ lastResult' = [lastResult EXCEPT ![p] =
          IF authorizationThrows(perm[p], op) THEN "throw" ELSE "state"]
    /\ UNCHANGED <<ledgerVars, logVars, identityVars, inventory, callsBound, sysState>>

\* createRoom(name, creator): the id is room_<Date.now()>_<random>, one
\* that no room has yet.
CreateRoom(p, roomId, creator) ==
    /\ roomId \notin DOMAIN perm[p].rooms
    /\ PermApply(p, PermOp("CREATE_ROOM", roomId, creator, "-", <<>>, <<>>, "-"))

\* The role strings a caller passes as options.role: none (the default
\* `${roomId}:MEMBER`), a full role id, or a bare role name.
RoleOptions(roomId) ==
    {RoleId(roomId, "MEMBER"), RoleId(roomId, "MODERATOR"), <<"MEMBER">>}

\* room.addMember(user, options): the inviter is the room's creator.
AddMember(p, roomId, user, role) ==
    /\ roomId \in DOMAIN perm[p].rooms
    /\ PermApply(p, PermOp("ADD_MEMBER", roomId, perm[p].rooms[roomId].createdBy,
                           user, role, <<>>, "-"))

\* room.updateMemberRole(user, newRole): role = `${roomId}:${newRole}`.
UpdateMemberRole(p, roomId, user, newRole) ==
    /\ roomId \in DOMAIN perm[p].rooms
    /\ PermApply(p, PermOp("UPDATE_MEMBER_ROLE", roomId, perm[p].rooms[roomId].createdBy,
                           user, RoleId(roomId, newRole), <<>>, "-"))

\* room.createChannel(name): the id is `${roomId}:channel_<Date.now()>_<random>`.
CreateChannel(p, roomId, channel) ==
    /\ roomId \in DOMAIN perm[p].rooms
    /\ ChannelId(roomId, channel) \notin DOMAIN perm[p].channels
    /\ PermApply(p, PermOp("CREATE_CHANNEL", roomId, perm[p].rooms[roomId].createdBy,
                           "-", <<>>, ChannelId(roomId, channel), channel))

\* A user who holds the room object calls one of its methods. The methods
\* take no issuer: the operation they build carries the id of the `creator`
\* that createRoom closed over, whoever makes the call.
IssuedAddMember(p, issuer, roomId, user, role) == AddMember(p, roomId, user, role)
IssuedUpdateMemberRole(p, issuer, roomId, user, newRole) ==
    UpdateMemberRole(p, roomId, user, newRole)
IssuedCreateChannel(p, issuer, roomId, channel) == CreateChannel(p, roomId, channel)

\* The operations other than CREATE_ROOM that apply may be handed, by any
\* acting user.
PermOps ==
    {PermOp(t, r, u, m, RoleId(r, n), <<>>, "-") :
        t \in {"ADD_MEMBER", "UPDATE_MEMBER_ROLE"}, r \in RoomIds, u \in Users,
        m \in Users, n \in {"MEMBER", "ADMIN"}}
    \cup {PermOp(t, r, u, "-", <<>>, ChannelId(r, c), c) :
        t \in {"CREATE_CHANNEL", "DELETE_CHANNEL", "UPDATE_CHANNEL"}, r \in RoomIds,
        u \in Users, c \in ChannelNames}

\* Operations of any shape apply may be handed: the ones of PermOps, channel
\* operations whose channelId names a channel of any room, whatever roomId the
\* operation carries, and CREATE_ROOM with any roomId, one in use included.
ApplyOps ==
    PermOps
    \cup {PermOp(t, r, u, "-", <<>>, ChannelId(r2, c), c) :
            t \in {"CREATE_CHANNEL", "DELETE_CHANNEL", "UPDATE_CHANNEL"}, r \in RoomIds,
            r2 \in RoomIds, u \in Users, c \in ChannelNames}
    \cup {PermOp("CREATE_ROOM", r, u, "-", <<>>, <<>>, "-") : r \in RoomIds, u \in Users}

\* ------------------------------------------- dispatcher-owned state
ChannelIds == {"ch1"}
ChannelRoles == {"ADMIN", "MODERATOR"}
TokenContracts == {"t1"}
MinBalances == {0, MaxAmount}

EmptyMap == [k \in {} |-> 0]

\* state.permissions.channels, state.permissions.defaultRoles and
\* state.tokenGated.access after createSmartContractSystem's setup.
ConstructState ==
    [channels |-> EmptyMap, defaultRoles |-> EmptyMap, access |-> EmptyMap]

\* map.get(outer).set(key, value), creating the inner Map when absent.
NestedSet(M, outer, key, value) ==
    MapSet(M, outer, MapSet(IF outer \in DOMAIN M THEN M[outer] ELSE EmptyMap, key, value))

PermissionData(channelId, userPublicKey, role) ==
    [type |-> "SET_PERMISSION", channelId |-> channelId,
     userPublicKey |-> userPublicKey, role |-> role]

TokenGateData(channelId, tokenContract, minBalance, tokenType) ==
    [type |-> "SET_TOKEN_GATE", channelId |-> channelId, tokenContract |-> tokenContract,
     minBalance |-> minBalance, tokenType |-> tokenType]

\* The dispatcher's "permission" case.
applyPermission(S, d) ==
    CASE d.type = "SET_PERMISSION" ->
           [S EXCEPT !.channels = NestedSet(@, d.channelId, d.userPublicKey, d.role)]
      [] d.type = "SET_DEFAULT_ROLE" ->
           [S EXCEPT !.defaultRoles = MapSet(@, d.userPublicKey, d.role)]
      [] OTHER -> S

\* The dispatcher's "tokenGated" case.
applyTokenGate(S, d) ==
    IF d.type = "SET_TOKEN_GATE"
    THEN [S EXCEPT !.access =
            NestedSet(@, d.channelId, d.tokenContract,
                      [minBalance |-> d.minBalance, tokenType |-> d.tokenType])]
    ELSE S

\* getPermission(channelId, userPublicKey)
getPermission(S, channelId, keyStr) ==
    IF channelId \notin DOMAIN S.channels THEN "MEMBER"
    ELSE IF keyStr \in DOMAIN S.channels[channelId] THEN S.channels[channelId][keyStr]
    ELSE IF keyStr \in DOMAIN S.defaultRoles THEN S.defaultRoles[keyStr]
    ELSE "MEMBER"

\* verifyTokenAccess(channelId, userAddress): the simulated balance is 0.
verifyTokenAccess(S, channelId) ==
    IF channelId \notin DOMAIN S.access \/ DOMAIN S.access[channelId] = {} THEN TRUE
    ELSE \E t \in DOMAIN S.access[channelId] : 0 >= S.access[channelId][t].minBalance

\* ------------------------------------------------------- log transport
\* Amounts a peer's envelope may carry: the amount field is not validated
\* anywhere between the log and the domain transition.
PeerAmounts == {0 - MaxAmount, MaxAmount}

\* Envelopes other writers of the shared log append: the shapes the
\* subsystems write, with any amount, and nodes the dispatcher skips.
PeerEnvelopes ==
    {Envelope("currency", MintData("a", n), now) : n \in PeerAmounts}
    \cup {Envelope("currency", TransferData("a", "b", n), now) : n \in PeerAmounts}
    \cup {Envelope("currency", BurnData("a", n), now) : n \in PeerAmounts}
    \cup {Envelope("resource", MintResourceData("r1", "a", MaxAmount), now),
          Envelope("identity", [type |-> "REGISTER_DEVICE", masterPublicKey |-> "m1",
                                devicePublicKey |-> "d1", authSignature |-> "s"], now),
          Envelope(Undefined, MintData("a", MaxAmount), now),
          Envelope("currency", NoData, now),
          EmptyNode}

\* Another writer's append takes its place in the total order.
PeerAppend(op) ==
    /\ OpsIssued < opsBound
    /\ log' = Append(log, op)
    /\ UNCHANGED <<ledgerVars, opsBound, pending, delivered, view, now, returned,
                   identityVars, lastResult, extVars>>

\* autobase.append resolves: the envelope takes its place in the total order.
\* A call that awaits its append hands its caller a promise, which settles
\* when the append does.
Promise == "promise"

AppendDone(p) ==
    /\ pending[p] # <<>>
    /\ log' = Append(log, Head(pending[p]))
    /\ pending' = [pending EXCEPT ![p] = Tail(@)]
    /\ returned' = [returned EXCEPT ![p] = Tail(@)]
    /\ lastResult' = [lastResult EXCEPT ![p] =
                        IF Head(returned[p]) = Promise THEN "true" ELSE @]
    /\ UNCHANGED <<ledgerVars, opsBound, delivered, view, now, identityVars, extVars>>

\* A failure handler that undoes what the process applied optimistically.
AppendFail_RollsBack(p) ==
    /\ pending[p] # <<>>
    /\ pending' = [pending EXCEPT ![p] = Tail(@)]
    /\ returned' = [returned EXCEPT ![p] = Tail(@)]
    /\ lastResult' = [lastResult EXCEPT ![p] =
                        IF Head(returned[p]) = Promise THEN "false" ELSE @]
    /\ opsBound' = opsBound - 1
    /\ ledger' = [ledger EXCEPT ![p] = resetLedger(@)]
    /\ authorizedDevices' = [authorizedDevices EXCEPT ![p] = EmptyRegistry]
    /\ sysState' = [sysState EXCEPT ![p] = ConstructState]
    /\ UNCHANGED <<config, inits, timer, prev, log, delivered, view, now, idInitialized,
                   sysIdentity, received, inventory, perm, calls, callsBound>>

\* autobase.append rejects: the catch block of writeOperation,
\* writeDeviceRegistration or appendOperation logs the error and returns
\* false to whoever awaits it.
AppendFail(p) ==
    /\ pending[p] # <<>>
    /\ pending' = [pending EXCEPT ![p] = Tail(@)]
    /\ returned' = [returned EXCEPT ![p] = Tail(@)]
    /\ lastResult' = [lastResult EXCEPT ![p] =
                        IF Head(returned[p]) = Promise THEN "false" ELSE @]
    /\ opsBound' = opsBound - 1
    /\ UNCHANGED <<ledgerVars, log, delivered, view, now, identityVars, extVars>>

\* createSmartContractSystem.apply on the next node of the log.
applyIdentity(reg, op) ==
    IF op.data.type = "REGISTER_DEVICE"
    THEN LET m == op.data.masterPublicKey
             d == op.data.devicePublicKey
         IN [x \in DOMAIN reg \cup {m} |->
                IF x = m THEN (IF m \in DOMAIN reg THEN reg[m] ELSE {}) \cup {d}
                ELSE reg[x]]
    ELSE reg

\* A check that only looks at the node.
skipped_EmptyNodeOnly(op) == op = EmptyNode

\* if (!node || !node.value) continue;
\* if (!operation.system || !operation.data) continue;
skipped(op) == op.system = Undefined \/ op.data = NoData

\* A dispatcher that keeps rejected currency envelopes out of the view.
Deliver_DropsRejected(p) ==
    /\ delivered[p] < Len(log)
    /\ LET op == log[delivered[p] + 1] IN
       IF skipped(op)
       THEN UNCHANGED <<ledger, sysIdentity, inventory, sysState, view>>
       ELSE
       /\ ledger' = [ledger EXCEPT ![p] =
                        IF op.system = "currency"
                        THEN updateFromOperation(@, config, op) ELSE @]
       /\ sysIdentity' = [sysIdentity EXCEPT ![p] =
                        IF op.system = "identity" THEN applyIdentity(@, op) ELSE @]
       /\ inventory' = [inventory EXCEPT ![p] =
                        IF op.system = "resource"
                        THEN resourceUpdateFromOperation(@, op) ELSE @]
       /\ sysState' = [sysState EXCEPT ![p] =
                        CASE op.system = "permission" -> applyPermission(@, op.data)
                          [] op.system = "tokenGated" -> applyTokenGate(@, op.data)
                          [] OTHER -> @]
       /\ view' = [view EXCEPT ![p] =
                      IF op.system = "currency"
                         /\ Len(ledger'[p].transactions) > Len(ledger[p].transactions)
                         /\ LastStatus(ledger'[p]) = "failed"
                      THEN @ ELSE Append(@, op)]
    /\ delivered' = [delivered EXCEPT ![p] = @ + 1]
    /\ UNCHANGED <<config, inits, timer, lastResult, prev, opsBound, pending, log, now, returned,
                   authorizedDevices, idInitialized, received, perm, calls, callsBound>>

Deliver(p) ==
    /\ delivered[p] < Len(log)
    /\ LET op == log[delivered[p] + 1] IN
       IF skipped(op)
       THEN UNCHANGED <<ledger, sysIdentity, inventory, sysState, view>>
       ELSE
       /\ ledger' = [ledger EXCEPT ![p] =
                        IF op.system = "currency"
                        THEN updateFromOperation(@, config, op) ELSE @]
       /\ sysIdentity' = [sysIdentity EXCEPT ![p] =
                        IF op.system = "identity" THEN applyIdentity(@, op) ELSE @]
       /\ inventory' = [inventory EXCEPT ![p] =
                        IF op.system = "resource"
                        THEN resourceUpdateFromOperation(@, op) ELSE @]
       /\ sysState' = [sysState EXCEPT ![p] =
                        CASE op.system = "permission" -> applyPermission(@, op.data)
                          [] op.system = "tokenGated" -> applyTokenGate(@, op.data)
                          [] OTHER -> @]
       /\ view' = [view EXCEPT ![p] = Append(@, op)]
    /\ delivered' = [delivered EXCEPT ![p] = @ + 1]
    /\ UNCHANGED <<config, inits, timer, lastResult, prev, opsBound, pending, log, now, returned,
                   authorizedDevices, idInitialized, received, perm, calls, callsBound>>

\* Date.now() advances.
Tick ==
    /\ now < MaxTime
    /\ now' = now + 1
    /\ UNCHANGED <<ledgerVars, opsBound, pending, log, delivered, view, returned,
                   identityVars, lastResult, extVars>>

\* The process is closed and reopened on the same storage once everything it
\* wrote has been appended and delivered: fresh in-memory instances, the same
\* log and durable view.
Reopen(p) ==
    /\ prev[p].restarts < MaxRestarts
    /\ pending[p] = <<>> /\ delivered[p] = Len(log)
    /\ inits[p] = <<>> /\ ~timer[p]
    /\ prev' = [prev EXCEPT ![p] = [restarts |-> prev[p].restarts + 1,
                                    balances |-> ledger[p].balances,
                                    totalSupply |-> ledger[p].totalSupply,
                                    holdings |-> [x \in Addr |-> getHoldings(inventory[p], x)],
                                    calls |-> calls[p],
                                    logLen |-> Len(log),
                                    pureReplay |-> prev[p].restarts > 0
                                                   /\ Len(log) = prev[p].logLen]]
    /\ ledger' = [ledger EXCEPT ![p] = ConstructLedger(config)]
    /\ timer' = [timer EXCEPT ![p] = TRUE]
    /\ lastResult' = [lastResult EXCEPT ![p] = None]
    /\ authorizedDevices' = [authorizedDevices EXCEPT ![p] = EmptyRegistry]
    /\ idInitialized' = [idInitialized EXCEPT ![p] = FALSE]
    /\ sysIdentity' = [sysIdentity EXCEPT ![p] = EmptyRegistry]
    /\ inventory' = [inventory EXCEPT ![p] = ConstructInventory(@.options)]
    /\ perm' = [perm EXCEPT ![p] = ConstructPermissions]
    /\ sysState' = [sysState EXCEPT ![p] = ConstructState]
    /\ UNCHANGED <<config, inits, logVars, received, calls, callsBound>>

\* A restart of a process whose log holds at least one envelope.
Restart(p) ==
    /\ Len(log) > 0
    /\ Reopen(p)

\* ---------------------------------------------------- identity registry
MasterKeys == {"m1", "m2"}
DeviceKeys == {"d1", "d2"}

\* sign(data, privateKey): the signature of the master key pair `master`
\* over `data`, an opaque value only verify can test.
sign(data, master) == <<master, data>>
Signatures == {sign(d, m) : d \in DeviceKeys, m \in MasterKeys}

\* verify(data, signature, publicKey)
verify(data, signature, publicKey) == signature = sign(data, publicKey)

\* An argument as the caller passes it: raw key material (a Buffer) or its
\* hex string; `hex` is what toString("hex") yields for a Buffer and the
\* string itself otherwise.
Args(S) == {[isBuffer |-> b, hex |-> v] : b \in BOOLEAN, v \in S}
toHex(arg) == arg.hex

\* A registration that replaces the master key's device set.
addDevice_ReplacesSet(reg, m, d) ==
    [x \in DOMAIN reg \cup {m} |-> IF x = m THEN {d} ELSE reg[x]]

\* authorizedDevices.get(m).add(d), creating the entry when absent.
addDevice(reg, m, d) ==
    [x \in DOMAIN reg \cup {m} |->
        IF x = m THEN (IF m \in DOMAIN reg THEN reg[m] ELSE {}) \cup {d}
        ELSE reg[x]]

\* A guard that throws on a valid signature instead of an invalid one.
authorizationRejected_Inverted(masterPublicKey, devicePublicKey, authSignature) ==
    /\ masterPublicKey.isBuffer
    /\ devicePublicKey.isBuffer
    /\ authSignature.isBuffer
    /\ verify(devicePublicKey.hex, authSignature.hex, masterPublicKey.hex)

\* registerDevice's guard: the signature is checked only when all three
\* arguments are Buffers; a failed check throws and the call returns false.
authorizationRejected(masterPublicKey, devicePublicKey, authSignature) ==
    /\ masterPublicKey.isBuffer
    /\ devicePublicKey.isBuffer
    /\ authSignature.isBuffer
    /\ ~verify(devicePublicKey.hex, authSignature.hex, masterPublicKey.hex)

isAuthorizedDevice(reg, masterPublicKey, devicePublicKey) ==
    /\ toHex(masterPublicKey) \in DOMAIN reg
    /\ toHex(devicePublicKey) \in reg[toHex(masterPublicKey)]

RegisterData(m, d, sig) ==
    [type |-> "REGISTER_DEVICE", masterPublicKey |-> m, devicePublicKey |-> d,
     authSignature |-> sig]

\* registerDevice: verify, add to the in-memory registry, then
\* writeDeviceRegistration (not awaited) and return true.
RegisterDevice(p, masterPublicKey, devicePublicKey, authSignature) ==
    /\ IF authorizationRejected(masterPublicKey, devicePublicKey, authSignature)
       THEN /\ lastResult' = [lastResult EXCEPT ![p] = "false"]
            /\ UNCHANGED <<authorizedDevices, pending, returned>>
       ELSE /\ OpsIssued < opsBound
            /\ authorizedDevices' = [authorizedDevices EXCEPT ![p] =
                  addDevice(@, toHex(masterPublicKey), toHex(devicePublicKey))]
            /\ pending' = [pending EXCEPT ![p] =
                  Append(@, Envelope("identity",
                                     RegisterData(toHex(masterPublicKey),
                                                  toHex(devicePublicKey),
                                                  toHex(authSignature)), now))]
            /\ lastResult' = [lastResult EXCEPT ![p] = "true"]
            /\ returned' = [returned EXCEPT ![p] = Append(@, "true")]
    /\ UNCHANGED <<ledgerVars, opsBound, log, delivered, view, now,
                   idInitialized, sysIdentity, received, extVars>>

\* A replay that adds the device only when the envelope's signature verifies.
identityUpdateFromOperation_Verifies(reg, op) ==
    IF /\ op.system = "identity" /\ op.data.type = "REGISTER_DEVICE"
       /\ verify(op.data.devicePublicKey, op.data.authSignature, op.data.masterPublicKey)
    THEN addDevice(reg, op.data.masterPublicKey, op.data.devicePublicKey)
    ELSE reg

\* The registry's updateFromOperation(operation): the device is added
\* without a signature check.
identityUpdateFromOperation(reg, op) ==
    IF op.system = "identity" /\ op.data.type = "REGISTER_DEVICE"
    THEN addDevice(reg, op.data.masterPublicKey, op.data.devicePublicKey)
    ELSE reg

\* What updateFromOperation returns: true for an identity REGISTER_DEVICE
\* operation, false for anything else.
identityUpdateResult(op) ==
    IF op.system = "identity" /\ op.data.type = "REGISTER_DEVICE" THEN "true" ELSE "false"

\* A caller (an apply function that owns a registry, as in the repository's
\* identity tests) hands the registry a REGISTER_DEVICE operation carrying
\* any signature, valid for the pair or not.
IdentityUpdateFromOperation(p, m, d, sig) ==
    LET op == Envelope("identity", RegisterData(m, d, sig), now)
    IN /\ authorizedDevices' = [authorizedDevices EXCEPT ![p] =
             identityUpdateFromOperation(@, op)]
       /\ received' = [received EXCEPT ![p] = op.data]
       /\ lastResult' = [lastResult EXCEPT ![p] = identityUpdateResult(op)]
       /\ UNCHANGED <<ledgerVars, logVars, idInitialized, sysIdentity, extVars>>

\* The registry's initialize(): await autobase.update(), then
\* isInitialized = true. It does not touch authorizedDevices.
IdentityInitialize(p) ==
    /\ ~idInitialized[p]
    /\ delivered[p] = Len(log)
    /\ idInitialized' = [idInitialized EXCEPT ![p] = TRUE]
    /\ UNCHANGED <<ledgerVars, logVars, authorizedDevices, sysIdentity, received, lastResult, extVars>>

\* ------------------------------------- permission and token-gate calls
\* The head of an async method up to its await appendOperation(system, data):
\* the local state is updated, the envelope is handed to autobase.append and
\* the caller holds a promise of appendOperation's result.
AwaitedCall(p, after, system, data) ==
    /\ OpsIssued < opsBound
    /\ sysState' = [sysState EXCEPT ![p] = after]
    /\ pending' = [pending EXCEPT ![p] = Append(@, Envelope(system, data, now))]
    /\ returned' = [returned EXCEPT ![p] = Append(@, Promise)]
    /\ lastResult' = [lastResult EXCEPT ![p] = Promise]
    /\ UNCHANGED <<ledgerVars, opsBound, log, delivered, view, now, identityVars,
                   inventory, perm, calls, callsBound>>

\* setPermission(channelId, userPublicKey, role)
SetPermission(p, channelId, userPublicKey, role) ==
    LET keyStr == toHex(userPublicKey) IN
    AwaitedCall(p, [sysState[p] EXCEPT !.channels = NestedSet(@, channelId, keyStr, role)],
                "permission", PermissionData(channelId, keyStr, role))

\* setTokenGate(channelId, tokenContract, minBalance, tokenType = "ERC20")
SetTokenGate(p, channelId, tokenContract, minBalance) ==
    AwaitedCall(p, [sysState[p] EXCEPT !.access =
                      NestedSet(@, channelId, tokenContract,
                                [minBalance |-> minBalance, tokenType |-> "ERC20"])],
                "tokenGated", TokenGateData(channelId, tokenContract, minBalance, "ERC20"))

\* --------------------------------------------------- specifications
InitShared ==
    /\ ledger = [p \in Proc |-> ConstructLedger(config)]
    /\ inits = [p \in Proc |-> <<>>]
    /\ pending = [p \in Proc |-> <<>>]
    /\ log = <<>>
    /\ delivered = [p \in Proc |-> 0]
    /\ view = [p \in Proc |-> <<>>]
    /\ now = 1
    /\ lastResult = [p \in Proc |-> None]
    /\ prev = [p \in Proc |-> NoPrev]
    /\ authorizedDevices = [p \in Proc |-> EmptyRegistry]
    /\ idInitialized = [p \in Proc |-> FALSE]
    /\ sysIdentity = [p \in Proc |-> EmptyRegistry]
    /\ received = [p \in Proc |-> NoData]
    /\ perm = [p \in Proc |-> ConstructPermissions]
    /\ calls = [p \in Proc |-> 0]
    /\ returned = [p \in Proc |-> <<>>]
    /\ sysState = [p \in Proc |-> ConstructState]

\* The subsystems as createSmartContractSystem constructs them.
InitCommon ==
    /\ InitShared
    /\ inventory = [p \in Proc |-> ConstructInventory(NoResources)]
    /\ callsBound = MaxCalls + 1

\* The live ledger of one process "w" that is the only writer of its log.
LedgerStep(p) ==
    \/ TimerFire(p)
    \/ \E k \in 1..MaxInits : InitStep(p, k)
    \/ \E k \in 1..MaxInits : InitFinish(p, k)
    \/ \E to \in Addr, amount \in Amounts : Mint(p, to, amount)
    \/ \E from \in Addr, to \in Addr, amount \in Amounts : Transfer(p, from, to, amount)
    \/ \E from \in Addr, amount \in Amounts : Burn(p, from, amount)
    \/ AppendDone(p)
    \/ Deliver(p)

Init ==
    /\ opsBound = MaxOps
    /\ config \in Configs
    /\ timer = [p \in Proc |-> p = "w"]
    /\ InitCommon

Next ==
    \/ LedgerStep("w")
    \/ Tick

Spec == Init /\ [][Next]_vars

\* The same ledger constructed with an initial supply within maxSupply.
SeededConfig ==
    [maxSupply |-> CfgMaxSupply, initialSupply |-> 1, initialHolder |-> "a"]

InitSeeded ==
    /\ opsBound = MaxOps
    /\ config = SeededConfig
    /\ timer = [p \in Proc |-> p = "w"]
    /\ InitCommon

SpecSeeded == InitSeeded /\ [][Next]_vars

\* The same process with application calls of forceInitialize() and with
\* restarts on the same storage.
InitRestart ==
    /\ opsBound = MaxOps + 1
    /\ config = DefaultConfig
    /\ timer = [p \in Proc |-> p = "w"]
    /\ InitCommon

NextRestart ==
    \/ LedgerStep("w")
    \/ ForceInitialize("w")
    \/ Restart("w")
    \/ Tick

SpecRestart == InitRestart /\ [][NextRestart]_vars

\* A writer "w" and a pure reader "r" on the same log.
InitNet ==
    /\ opsBound = MaxOps
    /\ config = DefaultConfig
    /\ timer = [p \in Proc |-> TRUE]
    /\ InitCommon

ReaderStep(p) ==
    \/ TimerFire(p)
    \/ \E k \in 1..MaxInits : InitStep(p, k)
    \/ \E k \in 1..MaxInits : InitFinish(p, k)
    \/ Deliver(p)

NextNet ==
    \/ LedgerStep("w")
    \/ ReaderStep("r")
    \/ Tick

SpecNet == InitNet /\ [][NextNet]_vars

\* The Identity Registry of process "w" on its own log.
InitIdentity ==
    /\ opsBound = MaxOps
    /\ config = DefaultConfig
    /\ timer = [p \in Proc |-> FALSE]
    /\ InitCommon

NextIdentity ==
    \/ \E m \in Args(MasterKeys), d \in Args(DeviceKeys), sig \in Args(Signatures) :
          RegisterDevice("w", m, d, sig)
    \/ IdentityInitialize("w")
    \/ AppendDone("w")
    \/ Deliver("w")
    \/ Tick

SpecIdentity == InitIdentity /\ [][NextIdentity]_vars

\* The public interface of one registry instance: registerDevice,
\* updateFromOperation and forceInitialize in any order.
NextRegistry ==
    \/ \E m \in Args(MasterKeys), d \in Args(DeviceKeys), sig \in Args(Signatures) :
          RegisterDevice("w", m, d, sig)
    \/ \E m \in MasterKeys, d \in DeviceKeys :
          IdentityUpdateFromOperation("w", m, d, sign(d, m))
    \/ IdentityInitialize("w")

SpecRegistry == InitIdentity /\ [][NextRegistry]_vars

\* The replay path of one registry instance: an apply function hands it
\* REGISTER_DEVICE envelopes read from a log that any writer may have
\* appended to, so the signature of an envelope is arbitrary.
NextRegistryReplay ==
    \/ \E m \in MasterKeys, d \in DeviceKeys, sig \in Signatures :
          IdentityUpdateFromOperation("w", m, d, sig)
    \/ IdentityInitialize("w")
    \/ Tick

SpecRegistryReplay == InitIdentity /\ [][NextRegistryReplay]_vars

\* The registry inside a smart-contract system that is restarted on the same
\* storage: only the dispatcher consumes the log.
NextIdentityRestart ==
    \/ \E m \in Args(MasterKeys), d \in Args(DeviceKeys), sig \in Args(Signatures) :
          RegisterDevice("w", m, d, sig)
    \/ IdentityInitialize("w")
    \/ AppendDone("w")
    \/ Deliver("w")
    \/ Restart("w")
    \/ Tick

SpecIdentityRestart == InitIdentity /\ [][NextIdentityRestart]_vars

\* A ledger constructed on a view that already holds entries, among them
\* values the loop cannot use: a null value, a string that is not JSON, an
\* envelope without system, without data, and one without a timestamp.
ReplayValues ==
    {NullValue, Unparsable,
     Envelope(Undefined, MintData("a", MaxAmount), 1),
     Envelope("currency", NoData, 1),
     Envelope("currency", MintData("a", MaxAmount), 0),
     Envelope("currency", MintData("a", MaxAmount), 1)}

SeqsUpTo(S, n) == UNION {[1..k -> S] : k \in 0..n}

InitReplay ==
    /\ opsBound = 0
    /\ config = DefaultConfig
    /\ timer = [p \in Proc |-> p = "w"]
    /\ ledger = [p \in Proc |-> ConstructLedger(config)]
    /\ inits = [p \in Proc |-> <<>>]
    /\ pending = [p \in Proc |-> <<>>]
    /\ log = <<>>
    /\ delivered = [p \in Proc |-> 0]
    /\ view \in {[p \in Proc |-> IF p = "w" THEN v ELSE <<>>] : v \in SeqsUpTo(ReplayValues, MaxView)}
    /\ now = 1
    /\ lastResult = [p \in Proc |-> None]
    /\ prev = [p \in Proc |-> NoPrev]
    /\ authorizedDevices = [p \in Proc |-> EmptyRegistry]
    /\ idInitialized = [p \in Proc |-> FALSE]
    /\ sysIdentity = [p \in Proc |-> EmptyRegistry]
    /\ received = [p \in Proc |-> NoData]
    /\ perm = [p \in Proc |-> ConstructPermissions]
    /\ calls = [p \in Proc |-> 0]
    /\ returned = [p \in Proc |-> <<>>]
    /\ sysState = [p \in Proc |-> ConstructState]
    /\ inventory = [p \in Proc |-> ConstructInventory(NoResources)]
    /\ callsBound = MaxCalls + 1

NextReplay ==
    \/ TimerFire("w")
    \/ ForceInitialize("w")
    \/ \E k \in 1..MaxInits : InitStep("w", k)
    \/ \E k \in 1..MaxInits : InitFinish("w", k)

SpecReplay == InitReplay /\ [][NextReplay]_vars

\* The timer callback runs and every awaited view.get and update resolves.
FairReplay ==
    /\ WF_vars(TimerFire("w"))
    /\ \A k \in 1..MaxInits : WF_vars(InitStep("w", k)) /\ WF_vars(InitFinish("w", k))

SpecReplayFair == SpecReplay /\ FairReplay

\* A ledger whose application mints one coin to the same address, possibly
\* several times within one millisecond, and is later restarted on the same
\* storage.
NextCollision ==
    \/ TimerFire("w")
    \/ \E k \in 1..MaxInits : InitStep("w", k)
    \/ \E k \in 1..MaxInits : InitFinish("w", k)
    \/ Mint("w", "a", 1)
    \/ AppendDone("w")
    \/ Deliver("w")
    \/ Restart("w")
    \/ Tick

SpecCollision == InitRestart /\ [][NextCollision]_vars

\* The Resource Inventory of process "w".
NextResource ==
    \/ \E r \in ResIds, m \in ResMaxSupplies : CreateResource("w", r, m)
    \/ \E r \in ResIds, to \in Addr, amount \in ResAmounts :
          MintResource("w", r, to, amount)
    \/ \E r \in ResIds, from \in Addr, to \in Addr, amount \in ResAmounts :
          TransferResource("w", r, from, to, amount)
    \/ \E r \in ResIds, from \in Addr, amount \in ResAmounts :
          ConsumeResource("w", r, from, amount)

\* A Resource Inventory constructed on its own, with or without
\* options.resources.
InitResource ==
    /\ opsBound = MaxOps
    /\ config = DefaultConfig
    /\ timer = [p \in Proc |-> FALSE]
    /\ InitShared
    /\ \E options \in ResourceOptions :
          inventory = [p \in Proc |-> ConstructInventory(options)]
    /\ callsBound = MaxCalls

SpecResource == InitResource /\ [][NextResource]_vars

\* The ledger's updateFromOperation(operation) called with an envelope read
\* from the log.
LedgerUpdateFromOperation(p, op) ==
    /\ calls[p] < callsBound
    /\ calls' = [calls EXCEPT ![p] = @ + 1]
    /\ ledger' = [ledger EXCEPT ![p] = updateFromOperation(@, config, op)]
    /\ lastResult' = [lastResult EXCEPT ![p] = updateFromOperationReturns(op)]
    /\ UNCHANGED <<config, inits, timer, prev, logVars, identityVars, inventory, perm,
                   callsBound, sysState>>

\* Envelopes of the shared log as they reach the two subsystems: the shapes
\* the write paths build, the same without the receiving address, another
\* system's envelope, an unknown type and an envelope without data.
UpdateEnvelopes ==
    {Envelope("currency", MintData("a", MaxAmount), 1),
     Envelope("currency", TransferData("a", "b", MaxAmount), 1),
     Envelope("currency", BurnData("b", MaxAmount), 1),
     Envelope("currency", [type |-> "MINT", to |-> Undefined, amount |-> MaxAmount], 1),
     Envelope("currency", [type |-> "STAKE"], 1),
     Envelope("currency", NoData, 1),
     Envelope("resource", MintResourceData("r1", "a", MaxAmount), 1),
     Envelope("resource", [type |-> "MINT_RESOURCE", resourceId |-> "r1", to |-> Undefined,
                           amount |-> MaxAmount], 1),
     Envelope("resource", TransferResourceData("r1", "a", "b", MaxAmount), 1),
     Envelope("resource", ConsumeResourceData("r1", "a", MaxAmount), 1),
     Envelope("resource", [type |-> "STAKE"], 1),
     Envelope("identity", NoData, 1)}

NextUpdate ==
    \/ \E op \in UpdateEnvelopes : LedgerUpdateFromOperation("w", op)
    \/ \E op \in UpdateEnvelopes : ResourceUpdateFromOperation("w", op)

SpecUpdate == InitResource /\ [][NextUpdate]_vars

\* The same inventory inside the smart-contract system, with restarts.
NextResourceSystem ==
    \/ NextResource
    \/ \E user \in Addr, r \in ResIds, q \in {0 - MaxAmount, 0, MaxAmount} :
          AddResource("w", user, r, q)
    \/ ResourceInitialize("w")
    \/ Reopen("w")

SpecResourceSystem == InitIdentity /\ [][NextResourceSystem]_vars

\* The Apply Dispatcher of process "w" consuming a log other writers append to.
InitDispatch ==
    /\ opsBound = MaxOps + 1
    /\ config = DefaultConfig
    /\ timer = [p \in Proc |-> FALSE]
    /\ InitCommon

NextDispatch ==
    \/ \E op \in PeerEnvelopes : PeerAppend(op)
    \/ Deliver("w")

SpecDispatch == InitDispatch /\ [][NextDispatch]_vars

\* The write path of process "w" over a log whose appends may be rejected.
NextTransport ==
    \/ \E to \in Addr, amount \in Amounts : Mint("w", to, amount)
    \/ \E from \in Addr, to \in Addr, amount \in Amounts : Transfer("w", from, to, amount)
    \/ \E from \in Addr, amount \in Amounts : Burn("w", from, amount)
    \/ \E m \in Args(MasterKeys), d \in Args(DeviceKeys), sig \in Args(Signatures) :
          RegisterDevice("w", m, d, sig)
    \/ \E c \in ChannelIds, u \in Args(Addr), role \in ChannelRoles :
          SetPermission("w", c, u, role)
    \/ \E c \in ChannelIds, t \in TokenContracts, m \in MinBalances :
          SetTokenGate("w", c, t, m)
    \/ AppendDone("w")
    \/ AppendFail("w")
    \/ Deliver("w")

SpecTransport == InitIdentity /\ [][NextTransport]_vars

\* The Permission Authority of process "w".
NextPermissions ==
    \/ \E r \in RoomIds, u \in Users : CreateRoom("w", r, u)
    \/ \E r \in RoomIds, u \in Users : \E role \in RoleOptions(r) :
          AddMember("w", r, u, role)
    \/ \E r \in RoomIds, u \in Users, n \in RoleNames \cup {"OWNER"} :
          UpdateMemberRole("w", r, u, n)
    \/ \E r \in RoomIds, c \in ChannelNames : CreateChannel("w", r, c)
    \/ \E op \in PermOps : PermApply("w", op)

SpecPermissions == InitIdentity /\ [][NextPermissions]_vars

\* Rooms whose objects are shared with the users of the room: any user
\* creates a room, and any user calls the methods of a room object.
NextHandles ==
    \/ \E r \in RoomIds, u \in Users : CreateRoom("w", r, u)
    \/ \E i \in Users, r \in RoomIds, u \in Users : \E role \in RoleOptions(r) :
          IssuedAddMember("w", i, r, u, role)
    \/ \E i \in Users, r \in RoomIds, u \in Users, n \in RoleNames :
          IssuedUpdateMemberRole("w", i, r, u, n)
    \/ \E i \in Users, r \in RoomIds, c \in ChannelNames : IssuedCreateChannel("w", i, r, c)

SpecHandles == InitIdentity /\ [][NextHandles]_vars

\* The authority's apply handed operations of any shape, next to the calls
\* of createRoom and of the room objects.
NextApply ==
    \/ \E r \in RoomIds, u \in Users : CreateRoom("w", r, u)
    \/ \E r \in RoomIds, u \in Users : AddMember("w", r, u, RoleId(r, "MEMBER"))
    \/ \E op \in ApplyOps : PermApply("w", op)

SpecApply == InitIdentity /\ [][NextApply]_vars

\* The domain transitions of the inventory and of the Permission Authority
\* of one process, in any order.
NextDomains ==
    \/ NextResource
    \/ NextPermissions

SpecDomains == InitResource /\ [][NextDomains]_vars

\* ------------------------------------------------------------ claims
\* What a ledger reports through balanceOf and totalSupply.
Reported(L) == [balances |-> L.balances, totalSupply |-> L.totalSupply]

\* Nothing of process p is in flight: its appends are linearized, every node
\* of the log has been delivered to it, and its initialization has completed.
Quiet(p) ==
    /\ pending[p] = <<>>
    /\ delivered[p] = Len(log)
    /\ inits[p] = <<>>
    /\ ~timer[p]
    /\ ledger[p].isInitialized

\* The state a fresh, reset ledger reaches by applying each envelope of `ops`
\* once, in order.
RECURSIVE SequentialReplay(_, _, _)
SequentialReplay(L, cfg, ops) ==
    IF ops = <<>> THEN L
    ELSE SequentialReplay(updateFromOperation(L, cfg, Head(ops)), cfg, Tail(ops))

\* The same with the replay loop's duplicate check (one uninterrupted run of
\* initialize()).
RECURSIVE SequentialInitialize(_, _, _)
SequentialInitialize(L, cfg, ops) ==
    IF ops = <<>> THEN L
    ELSE SequentialInitialize(replayEntry(L, cfg, Head(ops)), cfg, Tail(ops))

FreshLedger == resetLedger(ConstructLedger(config))

LastTx(L) == L.transactions[Len(L.transactions)]

\* C1: after every mint, transfer and burn call (and after every other step
\* of the ledger) the sum of the balances of all addresses equals totalSupply.
C1_SumOfBalancesIsTotalSupply ==
    \A p \in Proc : SumOver(ledger[p].balances, Addr) = ledger[p].totalSupply

C1_Witness ==
    /\ lastResult["w"] = "true"
    /\ ledger["w"].transactions # <<>>
    /\ LastTx(ledger["w"]).type = "TRANSFER"
    /\ LastTx(ledger["w"]).amount > 0
    /\ LastTx(ledger["w"]).from # LastTx(ledger["w"]).to
    /\ ledger["w"].totalSupply > 0

\* C2 (as claimed): in every reachable state totalSupply <= maxSupply.
\* createCurrencySystem seeds totalSupply with options.initialSupply without
\* comparing it to maxSupply.
C2_TotalSupplyWithinMax ==
    \A p \in Proc : ledger[p].totalSupply <= config.maxSupply

\* C2, second half: a mint that would exceed maxSupply changes no balance and
\* not totalSupply, returns false and records a failed transaction.
C2_ExceedingMintRejected ==
    [][\A p \in Proc, to \in Addr, amount \in Amounts :
        (Mint(p, to, amount) /\ ledger[p].totalSupply + amount > config.maxSupply)
        => /\ Reported(ledger'[p]) = Reported(ledger[p])
           /\ lastResult'[p] = "false"
           /\ LastTx(ledger'[p]).status = "failed"
           /\ Len(ledger'[p].transactions) = Len(ledger[p].transactions) + 1]_vars

\* C3: a transfer with balanceOf(from) < amount returns false and leaves both
\* balances and totalSupply unchanged; otherwise the single step debits from
\* and credits to by exactly amount (a transfer to oneself nets to nothing)
\* and touches no other balance and not totalSupply.
C3_TransferAllOrNothing ==
    [][\A p \in Proc, from \in Addr, to \in Addr, amount \in Amounts :
        (pending'[p] # pending[p] /\ Transfer(p, from, to, amount)) =>
          LET before == ledger[p]
              after == ledger'[p]
          IN IF balanceOf(before, from) < amount
             THEN /\ lastResult'[p] = "false"
                  /\ Reported(after) = Reported(before)
             ELSE /\ after.totalSupply = before.totalSupply
                  /\ from # to => /\ balanceOf(after, from) = balanceOf(before, from) - amount
                                  /\ balanceOf(after, to) = balanceOf(before, to) + amount
                  /\ from = to => balanceOf(after, from) = balanceOf(before, from)
                  /\ \A x \in Addr \ {from, to} :
                        balanceOf(after, x) = balanceOf(before, x)]_vars

C3_Witness ==
    /\ lastResult["w"] = "false"
    /\ ledger["w"].transactions # <<>>
    /\ LastTx(ledger["w"]).type = "TRANSFER"
    /\ LastTx(ledger["w"]).status = "failed"
    /\ LastTx(ledger["w"]).amount > 0

\* The node the dispatcher of p is about to consume carries the dedup key of a
\* node it has consumed before.
DuplicateDelivery(p) ==
    /\ delivered[p] < Len(log)
    /\ \E j \in 1..delivered[p] :
          generateOperationId(log[j]) = generateOperationId(log[delivered[p] + 1])

\* C4 (as claimed): delivering an envelope whose dedup key was delivered
\* before is a no-op: no balance, not totalSupply and not the history change.
C4_DuplicateDeliveryIsNoOp ==
    [][\A p \in Proc :
        (Deliver(p) /\ DuplicateDelivery(p))
        => /\ Reported(ledger'[p]) = Reported(ledger[p])
           /\ ledger'[p].transactions = ledger[p].transactions]_vars

\* C5 (as claimed): once the envelopes the only writer issued through the
\* write path have come back through its own dispatcher, each operation has
\* taken effect on its balances and totalSupply exactly once.
C5_OwnEnvelopeAppliedOnce ==
    (config = DefaultConfig /\ prev["w"].restarts = 0 /\ Quiet("w"))
    => Reported(ledger["w"]) = Reported(SequentialReplay(FreshLedger, config, log))

\* The instance of p was constructed by a restart and has seen no envelope
\* that was not in the log when it was constructed; its replay is complete.
ReplayComplete(p) ==
    /\ prev[p].restarts > 0
    /\ Len(log) = prev[p].logLen
    /\ Quiet(p)

\* C6 (as claimed): replaying the same log into a fresh state machine twice
\* yields identical balances and totalSupply.
C6_ReplayDeterministic ==
    (prev["w"].restarts = 2 /\ prev["w"].pureReplay /\ ReplayComplete("w"))
    => Reported(ledger["w"]) = [balances |-> prev["w"].balances,
                                totalSupply |-> prev["w"].totalSupply]

\* C7 (as claimed): after a restart and the completed replay the fresh ledger
\* reports what the original instance reported before the restart.
C7_RestartEquivalence ==
    (prev["w"].restarts = 1 /\ ReplayComplete("w"))
    => Reported(ledger["w"]) = [balances |-> prev["w"].balances,
                                totalSupply |-> prev["w"].totalSupply]

\* C8 (as claimed): once every appended envelope has been delivered to every
\* process, the writer and the reader hold identical balances and totalSupply.
C8_Convergence ==
    (\A p \in Proc : Quiet(p))
    => Reported(ledger["w"]) = Reported(ledger["r"])

\* C9 (as claimed): whatever number of initialize()/forceInitialize()
\* invocations ran, the final state is that of one sequential replay of the
\* view (with or without the replay loop's duplicate check).
C9_ForceInitializeIdempotent ==
    ReplayComplete("w")
    => \/ Reported(ledger["w"])
            = Reported(SequentialInitialize(FreshLedger, config, view["w"]))
       \/ Reported(ledger["w"])
            = Reported(SequentialReplay(FreshLedger, config, view["w"]))

InvalidBufferTriples ==
    {t \in [m : {x \in Args(MasterKeys) : x.isBuffer},
            d : {x \in Args(DeviceKeys) : x.isBuffer},
            sig : {x \in Args(Signatures) : x.isBuffer}] :
        ~verify(t.d.hex, t.sig.hex, t.m.hex)}

C11_AuthorizationMonotonic ==
    [][\A p \in Proc :
        /\ \A m \in Args(MasterKeys), d \in Args(DeviceKeys) :
              isAuthorizedDevice(authorizedDevices[p], m, d)
                => isAuthorizedDevice(authorizedDevices'[p], m, d)
        /\ authorizedDevices'[p] # authorizedDevices[p]
             => /\ \A m \in Args(MasterKeys), d \in Args(DeviceKeys), sig \in Args(Signatures) :
                      isAuthorizedDevice(authorizedDevices[p], m, d)
                        => ~RegisterDevice(p, m, d, sig)
                /\ \A m \in MasterKeys, d \in DeviceKeys, sig \in Signatures :
                      (m \in DOMAIN authorizedDevices[p] /\ d \in authorizedDevices[p][m])
                        => ~IdentityUpdateFromOperation(p, m, d, sig)]_vars

\* A master key with two devices, the second added after the first, on a
\* registry whose forceInitialize has completed.
C11_Witness ==
    /\ "m1" \in DOMAIN authorizedDevices["w"]
    /\ authorizedDevices["w"]["m1"] = DeviceKeys
    /\ idInitialized["w"]

\* The REGISTER_DEVICE pairs of the log.
RegisteredInLog ==
    {<<log[i].data.masterPublicKey, log[i].data.devicePublicKey>> :
        i \in {j \in 1..Len(log) : log[j].system = "identity"
                                     /\ log[j].data.type = "REGISTER_DEVICE"}}

\* C12 (as claimed): after a restart and the completed replay of a log that
\* holds REGISTER_DEVICE(m, d), the system's identityRegistry reports the
\* pair authorized, and it agrees with the dispatcher's identity state on
\* every pair.
C12_DispatcherFeedsRegistry ==
    (/\ prev["w"].restarts > 0
     /\ idInitialized["w"]
     /\ pending["w"] = <<>> /\ delivered["w"] = Len(log))
    => /\ \A pair \in RegisteredInLog :
            /\ pair[1] \in DOMAIN authorizedDevices["w"]
            /\ pair[2] \in authorizedDevices["w"][pair[1]]
       /\ authorizedDevices["w"] = sysIdentity["w"]

\* The flag isOperationAuthorized requires of the acting user's role.
HasRequiredFlag(permissions, type) ==
    CASE type = "ADD_MEMBER" -> permissions.canInvite
      [] type = "UPDATE_MEMBER_ROLE" -> permissions.canManagePermissions
      [] type \in {"CREATE_CHANNEL", "DELETE_CHANNEL", "UPDATE_CHANNEL"} ->
           permissions.canManageChannels
      [] OTHER -> FALSE

\* The acting user of a non-CREATE_ROOM operation has no membership record
\* in the target room, or the role of that record lacks the required flag
\* (a role id that resolves to no role grants nothing).
Unauthorized(P, op) ==
    /\ op.type # "CREATE_ROOM"
    /\ \/ MemberKey(op.roomId, op.actor) \notin DOMAIN P.members
       \/ LET roleId == P.members[MemberKey(op.roomId, op.actor)].role IN
          \/ roleId \notin DOMAIN P.roles
          \/ ~HasRequiredFlag(P.roles[roleId].permissions, op.type)

\* The operations the methods of the room objects of P build.
RoomMethodOps(P) ==
    UNION {
      {PermOp("ADD_MEMBER", r, P.rooms[r].createdBy, u, role, <<>>, "-") :
          u \in Users, role \in RoleOptions(r)}
      \cup {PermOp("UPDATE_MEMBER_ROLE", r, P.rooms[r].createdBy, u, RoleId(r, n), <<>>, "-") :
          u \in Users, n \in RoleNames \cup {"OWNER"}}
      \cup {PermOp("CREATE_CHANNEL", r, P.rooms[r].createdBy, "-", <<>>, ChannelId(r, c), c) :
          c \in ChannelNames}
      : r \in DOMAIN P.rooms}

C14_MemberRoleResolves ==
    \A p \in Proc : \A k \in DOMAIN perm[p].members :
        LET member == perm[p].members[k] IN
        /\ member.role \in DOMAIN perm[p].roles
        /\ perm[p].roles[member.role].roomId = member.roomId

\* What getHoldings reports for every address.
AllHoldings(R) == [x \in Addr |-> getHoldings(R, x)]

\* The currentSupply of every resource.
AllSupplies(R) == [r \in DOMAIN R.resources |-> R.resources[r].currentSupply]

\* C15 (as claimed): a fresh inventory constructed by a restart on the same
\* storage, once initialized and before any further call, reports the
\* holdings the original instance reported.
C15_HoldingsSurviveRestart ==
    (/\ prev["w"].restarts > 0
     /\ inventory["w"].isInitialized
     /\ calls["w"] = prev["w"].calls
     /\ pending["w"] = <<>> /\ delivered["w"] = Len(log))
    => AllHoldings(inventory["w"]) = prev["w"].holdings

\* Total amount of the successful records of one type for one resource.
RECURSIVE SumSuccessful(_, _, _)
SumSuccessful(ops, type, resourceId) ==
    IF ops = <<>> THEN 0
    ELSE (IF /\ Head(ops).type = type
             /\ Head(ops).resourceId = resourceId
             /\ Head(ops).status = "success"
          THEN Head(ops).amount ELSE 0)
         + SumSuccessful(Tail(ops), type, resourceId)

RECURSIVE SumHoldings(_, _, _)
SumHoldings(R, resourceId, S) ==
    IF S = {} THEN 0
    ELSE LET x == CHOOSE y \in S : TRUE IN
         holdingOf(R, x, resourceId) + SumHoldings(R, resourceId, S \ {x})

LastResOp(R) == R.operations[Len(R.operations)]

Pushed(p, type, resourceId, from, to, amount) ==
    /\ Len(inventory'[p].operations) = Len(inventory[p].operations) + 1
    /\ LastResOp(inventory'[p]).type = type
    /\ LastResOp(inventory'[p]).resourceId = resourceId
    /\ LastResOp(inventory'[p]).from = from
    /\ LastResOp(inventory'[p]).to = to
    /\ LastResOp(inventory'[p]).amount = amount

SupplyWithinMax ==
    \A p \in Proc : \A r \in DOMAIN inventory[p].resources :
        inventory[p].resources[r].maxSupply > 0
          => inventory[p].resources[r].currentSupply <= inventory[p].resources[r].maxSupply

\* C17: every resource with maxSupply > 0 has currentSupply <= maxSupply;
\* mintResource on an unknown resource id, or past a positive maxSupply,
\* changes no holding and no supply, pushes a failed record and returns
\* false; any other mint (a resource with maxSupply 0 always) credits the
\* holder, raises currentSupply by amount and returns true.
C17_MintRespectsMaxSupply ==
    /\ []SupplyWithinMax
    /\ [][\A p \in Proc, r \in ResIds, to \in Addr, amount \in ResAmounts :
          (Pushed(p, "MINT_RESOURCE", r, "-", to, amount) /\ MintResource(p, r, to, amount)) =>
            LET R == inventory[p]
                after == inventory'[p]
            IN IF \/ r \notin DOMAIN R.resources
                  \/ /\ R.resources[r].maxSupply > 0
                     /\ R.resources[r].currentSupply + amount > R.resources[r].maxSupply
               THEN /\ AllHoldings(after) = AllHoldings(R)
                    /\ after.resources = R.resources
                    /\ Len(after.operations) = Len(R.operations) + 1
                    /\ LastResOp(after).status = "failed"
                    /\ lastResult'[p] = "false"
               ELSE /\ holdingOf(after, to, r) = holdingOf(R, to, r) + amount
                    /\ after.resources[r].currentSupply
                         = R.resources[r].currentSupply + amount
                    /\ lastResult'[p] = "true"]_vars

\* A mint past a positive maxSupply has just been rejected.
C17_Witness ==
    /\ lastResult["w"] = "false"
    /\ inventory["w"].operations # <<>>
    /\ LastResOp(inventory["w"]).type = "MINT_RESOURCE"
    /\ LastResOp(inventory["w"]).reason = "Would exceed max supply"

\* C18: a transferResource whose sender holds less than amount changes no
\* holding and no supply; any other moves exactly amount from the sender's
\* holding to the receiver's (a transfer to oneself nets to nothing) and
\* leaves every other holding and every currentSupply as it was.
C18_TransferResourceFrame ==
    [][\A p \in Proc, r \in ResIds, from \in Addr, to \in Addr, amount \in ResAmounts :
        (/\ Pushed(p, "TRANSFER_RESOURCE", r, from, to, amount)
         /\ TransferResource(p, r, from, to, amount)) =>
          LET R == inventory[p]
              after == inventory'[p]
          IN /\ after.resources = R.resources
             /\ IF holdingOf(R, from, r) < amount
                THEN AllHoldings(after) = AllHoldings(R)
                ELSE /\ from # to =>
                          /\ holdingOf(after, from, r) = holdingOf(R, from, r) - amount
                          /\ holdingOf(after, to, r) = holdingOf(R, to, r) + amount
                     /\ from = to => holdingOf(after, from, r) = holdingOf(R, from, r)
                     /\ \A x \in Addr, q \in ResIds :
                          (q # r \/ x \notin {from, to})
                            => holdingOf(after, x, q) = holdingOf(R, x, q)]_vars

\* A holding has just been moved to another address.
C18_Witness ==
    /\ lastResult["w"] = "true"
    /\ inventory["w"].operations # <<>>
    /\ LastResOp(inventory["w"]).type = "TRANSFER_RESOURCE"
    /\ LastResOp(inventory["w"]).amount > 0
    /\ LastResOp(inventory["w"]).from # LastResOp(inventory["w"]).to
    /\ holdingOf(inventory["w"], LastResOp(inventory["w"]).to,
                 LastResOp(inventory["w"]).resourceId) > 0

\* C19 (as claimed): a consumeResource whose holder holds less than amount
\* returns false, changes no holding and no supply and pushes a failed
\* record; any other lowers the holder's holding and the resource's
\* currentSupply by amount and returns true; in both cases the call pushes
\* its own record and returns that record's outcome.
C19_ConsumeReportsOwnOutcome ==
    [][\A p \in Proc, r \in ResIds, from \in Addr, amount \in ResAmounts :
        ConsumeResource(p, r, from, amount) =>
          LET R == inventory[p]
              after == inventory'[p]
          IN /\ Len(after.operations) = Len(R.operations) + 1
             /\ lastResult'[p] = Bool(LastResOp(after).status = "success")
             /\ IF holdingOf(R, from, r) < amount
                THEN /\ lastResult'[p] = "false"
                     /\ AllHoldings(after) = AllHoldings(R)
                     /\ AllSupplies(after) = AllSupplies(R)
                ELSE /\ lastResult'[p] = "true"
                     /\ holdingOf(after, from, r) = holdingOf(R, from, r) - amount
                     /\ r \in DOMAIN R.resources
                          => after.resources[r].currentSupply
                               = R.resources[r].currentSupply - amount]_vars

\* C20 (as claimed): addResource(user, resourceId, quantity) with
\* quantity > 0 raises getResourceQuantity(user, resourceId) by quantity.
C20_AddResourceCredits ==
    [][\A p \in Proc, user \in Addr, r \in ResIds :
        AddResource(p, user, r, MaxAmount)
          => getResourceQuantity(inventory'[p], user, r)
               = getResourceQuantity(inventory[p], user, r) + MaxAmount]_vars

\* Total amount of the successful history records of one type.
RECURSIVE SumTransactions(_, _)
SumTransactions(txs, type) ==
    IF txs = <<>> THEN 0
    ELSE (IF Head(txs).type = type /\ Head(txs).status = "success"
          THEN Head(txs).amount ELSE 0) + SumTransactions(Tail(txs), type)

\* C21 (as claimed): totalSupply always equals the amounts of the successful
\* mints minus the amounts of the successful burns in the history.
C21_SupplyIsMintsMinusBurns ==
    \A p \in Proc :
        ledger[p].totalSupply
          = SumTransactions(ledger[p].transactions, "MINT")
            - SumTransactions(ledger[p].transactions, "BURN")

\* C21, second half: a burn of more than the balance returns false, records
\* a failed transaction and changes no balance and not totalSupply; any other
\* burn lowers the balance and totalSupply by exactly amount.
C21_BurnFrame ==
    [][\A p \in Proc, from \in Addr, amount \in Amounts :
        Burn(p, from, amount) =>
          IF balanceOf(ledger[p], from) < amount
          THEN /\ lastResult'[p] = "false"
               /\ LastTx(ledger'[p]).status = "failed"
               /\ Reported(ledger'[p]) = Reported(ledger[p])
          ELSE /\ lastResult'[p] = "true"
               /\ ledger'[p].balances =
                    [ledger[p].balances EXCEPT ![from] = @ - amount]
               /\ ledger'[p].totalSupply = ledger[p].totalSupply - amount]_vars

\* C22 (as claimed): whatever envelopes the log delivers, every address's
\* balance is >= 0.
C22_BalancesNonNegative ==
    \A p \in Proc, x \in Addr : balanceOf(ledger[p], x) >= 0

\* C23: when a write-path call returns, its append still in flight, the
\* caller's read accessors already show the operation: balanceOf, totalSupply
\* and the history for mint, transfer and burn, isAuthorizedDevice for
\* registerDevice, getPermission for setPermission, and the token gate (and
\* verifyTokenAccess) for setTokenGate.
C23_ReadYourWrite ==
    [][\A p \in Proc :
        Len(pending'[p]) > Len(pending[p]) =>
          LET L == ledger[p]
              after == ledger'[p]
              ok == lastResult'[p] = "true"
          IN
          /\ \A to \in Addr, amount \in Amounts :
                Mint(p, to, amount) =>
                  /\ Len(after.transactions) = Len(L.transactions) + 1
                  /\ LastTx(after) = Tx("MINT", "-", to, amount,
                                       LastTx(after).status, LastTx(after).reason)
                  /\ ok = (LastTx(after).status = "success")
                  /\ ok => /\ balanceOf(after, to) = balanceOf(L, to) + amount
                           /\ after.totalSupply = L.totalSupply + amount
          /\ \A from \in Addr, to \in Addr, amount \in Amounts :
                Transfer(p, from, to, amount) =>
                  /\ Len(after.transactions) = Len(L.transactions) + 1
                  /\ LastTx(after).type = "TRANSFER"
                  /\ ok = (LastTx(after).status = "success")
                  /\ (ok /\ from # to) =>
                        /\ balanceOf(after, from) = balanceOf(L, from) - amount
                        /\ balanceOf(after, to) = balanceOf(L, to) + amount
          /\ \A from \in Addr, amount \in Amounts :
                Burn(p, from, amount) =>
                  /\ Len(after.transactions) = Len(L.transactions) + 1
                  /\ LastTx(after).type = "BURN"
                  /\ ok = (LastTx(after).status = "success")
                  /\ ok => /\ balanceOf(after, from) = balanceOf(L, from) - amount
                           /\ after.totalSupply = L.totalSupply - amount
          /\ \A m \in Args(MasterKeys), d \in Args(DeviceKeys), sig \in Args(Signatures) :
                RegisterDevice(p, m, d, sig) =>
                  isAuthorizedDevice(authorizedDevices'[p], m, d)
          /\ \A c \in ChannelIds, u \in Args(Addr), role \in ChannelRoles :
                SetPermission(p, c, u, role) =>
                  getPermission(sysState'[p], c, toHex(u)) = role
          /\ \A c \in ChannelIds, t \in TokenContracts, m \in MinBalances :
                SetTokenGate(p, c, t, m) =>
                  /\ c \in DOMAIN sysState'[p].access
                  /\ t \in DOMAIN sysState'[p].access[c]
                  /\ sysState'[p].access[c][t] = [minBalance |-> m, tokenType |-> "ERC20"]
                  /\ m <= 0 => verifyTokenAccess(sysState'[p], c)]_vars

\* A mint has returned true, its append has not completed, and balanceOf
\* already shows the minted amount.
C23_Witness ==
    /\ pending["w"] # <<>>
    /\ log = <<>>
    /\ Head(pending["w"]).system = "currency"
    /\ Head(pending["w"]).data.type = "MINT"
    /\ Head(returned["w"]) = "true"
    /\ Head(pending["w"]).data.amount > 0
    /\ balanceOf(ledger["w"], Head(pending["w"]).data.to) = Head(pending["w"]).data.amount

\* Everything a process keeps in memory about the domain.
LocalState(p) ==
    <<ledger[p], authorizedDevices[p], sysState[p], sysIdentity[p], inventory[p], perm[p]>>

\* C24: a rejected append leaves the local state as the optimistic apply
\* made it: ledger, history, dedup ledger, device registry, permissions and
\* token gates are exactly what they were before the rejection.
C24_FailedAppendKeepsLocalState ==
    [][\A p \in Proc :
        (Len(pending'[p]) < Len(pending[p]) /\ AppendFail(p))
          => LocalState(p)' = LocalState(p)]_vars

\* An append was rejected, nothing reached the log, and the ledger still
\* shows the minted amount.
C24_Witness ==
    /\ opsBound < MaxOps
    /\ log = <<>>
    /\ pending["w"] = <<>>
    /\ ledger["w"].transactions # <<>>
    /\ LastTx(ledger["w"]).type = "MINT"
    /\ LastTx(ledger["w"]).status = "success"
    /\ LastTx(ledger["w"]).amount > 0
    /\ balanceOf(ledger["w"], LastTx(ledger["w"]).to) = LastTx(ledger["w"]).amount

\* C25 (as claimed): when the append a write-path call issued is rejected,
\* what that call gave its caller (the value it returned, or the value its
\* promise settles to) is a failure.
C25_TransportFailureReported ==
    [][\A p \in Proc :
        (Len(pending'[p]) < Len(pending[p]) /\ AppendFail(p))
          => (IF Head(returned[p]) = Promise THEN lastResult'[p] ELSE Head(returned[p]))
               = "false"]_vars

\* C26: an envelope without system or data, or an empty node, is skipped by
\* the dispatcher: no domain state changes, nothing is written to the view,
\* and the dispatcher moves on to the node that follows it.
C26_MalformedSkipped ==
    [][\A p \in Proc :
        (/\ delivered'[p] = delivered[p] + 1
         /\ log[delivered[p] + 1] \in
               {EmptyNode} \cup {e \in PeerEnvelopes :
                                  e.system = Undefined \/ e.data = NoData}
         /\ Deliver(p))
          => /\ LocalState(p)' = LocalState(p)
             /\ view'[p] = view[p]]_vars

\* A malformed envelope was passed over and the envelope after it was
\* processed and written to the view.
C26_Witness ==
    /\ Len(log) > 1
    /\ delivered["w"] = Len(log)
    /\ log[1].system = Undefined
    /\ view["w"] = <<log[Len(log)]>>
    /\ ledger["w"].transactions # <<>>

\* The envelopes of `ops` that carry both system and data, in order.
RECURSIVE WellFormed(_)
WellFormed(ops) ==
    IF ops = <<>> THEN <<>>
    ELSE (IF Head(ops).system = Undefined \/ Head(ops).data = NoData
          THEN <<>> ELSE <<Head(ops)>>) \o WellFormed(Tail(ops))

\* C27: the durable view of a process is the sequence of well-formed
\* envelopes delivered to it, each once and in log order, whether its domain
\* transition succeeded or was rejected.
C27_ViewIsDeliveredSequence ==
    \A p \in Proc : view[p] = WellFormed(SubSeq(log, 1, delivered[p]))

\* A currency envelope was rejected by the ledger (failed record) and is the
\* last entry of the view.
C27_Witness ==
    /\ view["w"] # <<>>
    /\ view["w"][Len(view["w"])].system = "currency"
    /\ ledger["w"].transactions # <<>>
    /\ LastTx(ledger["w"]).status = "failed"
    /\ Len(view["w"]) > 1

\* The step pushed one failed record onto p's operations.
PushedFailed(p) ==
    /\ Len(inventory'[p].operations) = Len(inventory[p].operations) + 1
    /\ LastResOp(inventory'[p]).status = "failed"

\* C28 (as claimed): no domain transition ends in an exception, and a
\* transition refused for an unknown resource, insufficient holdings, a
\* supply limit or an unauthorized actor tells its caller so (returns false)
\* or pushes a failed record.
C28_ValidationFailuresSurfaced ==
    [][\A p \in Proc :
        calls'[p] > calls[p] =>
          LET R == inventory[p] IN
          /\ lastResult'[p] # "throw"
          /\ \A r \in ResIds, from \in Addr, amount \in ResAmounts :
                (/\ r \notin DOMAIN R.resources \/ holdingOf(R, from, r) < amount
                 /\ ConsumeResource(p, r, from, amount))
                  => lastResult'[p] = "false" /\ PushedFailed(p)
          /\ \A r \in ResIds, to \in Addr, amount \in ResAmounts :
                (/\ r \notin DOMAIN R.resources
                 /\ MintResource(p, r, to, amount))
                  => lastResult'[p] = "false" /\ PushedFailed(p)
          /\ \A op \in PermOps \cup RoomMethodOps(perm[p]) :
                (Unauthorized(perm[p], op) /\ PermApply(p, op))
                  => lastResult'[p] = "false"]_vars

\* The history `after` is `before` plus exactly one record, which carries a
\* status and, when failed, a reason.
OneRecord(before, after) ==
    /\ Len(after) = Len(before) + 1
    /\ SubSeq(after, 1, Len(before)) = before
    /\ after[Len(after)].status \in {"success", "failed"}
    /\ after[Len(after)].status = "failed" => after[Len(after)].reason # "-"

\* A transition of p's ledger: a write-path call or a delivered currency
\* envelope.
LedgerTransition(p) ==
    \/ \E to \in Addr, amount \in Amounts : Mint(p, to, amount)
    \/ \E from \in Addr, to \in Addr, amount \in Amounts : Transfer(p, from, to, amount)
    \/ \E from \in Addr, amount \in Amounts : Burn(p, from, amount)
    \/ /\ delivered[p] < Len(log)
       /\ log[delivered[p] + 1].system = "currency"
       /\ log[delivered[p] + 1].data # NoData
       /\ Deliver(p)

\* A transition of p's inventory issued by the write path.
InventoryTransition(p) ==
    \/ \E r \in ResIds, to \in Addr, amount \in ResAmounts : MintResource(p, r, to, amount)
    \/ \E r \in ResIds, from \in Addr, to \in Addr, amount \in ResAmounts :
          TransferResource(p, r, from, to, amount)
    \/ \E r \in ResIds, from \in Addr, amount \in ResAmounts :
          ConsumeResource(p, r, from, amount)

\* C29, ledger half without the "exactly when": every transition of the
\* ledger appends exactly one record with a status (and a reason on
\* failure), and a failed one changes no balance and not totalSupply.
C29_LedgerOneRecord ==
    [][\A p \in Proc :
        (Len(ledger'[p].transactions) # Len(ledger[p].transactions) /\ LedgerTransition(p))
          => /\ OneRecord(ledger[p].transactions, ledger'[p].transactions)
             /\ LastTx(ledger'[p]).status = "failed"
                  => Reported(ledger'[p]) = Reported(ledger[p])]_vars

\* C29 (as claimed): every attempted ledger or inventory transition appends
\* exactly one history record with a status, and a reason when it failed;
\* the status is success exactly when balances, holdings or supply changed.
C29_OneRecordPerTransition ==
    [][\A p \in Proc :
        /\ LedgerTransition(p)
             => /\ OneRecord(ledger[p].transactions, ledger'[p].transactions)
                /\ (LastTx(ledger'[p]).status = "success")
                     = (Reported(ledger'[p]) # Reported(ledger[p]))
        /\ (calls'[p] > calls[p] /\ InventoryTransition(p))
             => /\ OneRecord(inventory[p].operations, inventory'[p].operations)
                /\ (LastResOp(inventory'[p]).status = "success")
                     = (\/ AllHoldings(inventory'[p]) # AllHoldings(inventory[p])
                        \/ AllSupplies(inventory'[p]) # AllSupplies(inventory[p]))]_vars

\* C29, inventory half without the "exactly when".
C29_InventoryOneRecord ==
    [][\A p \in Proc :
        (calls'[p] > calls[p] /\ InventoryTransition(p))
          => OneRecord(inventory[p].operations, inventory'[p].operations)]_vars

\* C30 (as claimed): across every step of a ledger instance, initialize and
\* forceInitialize included, the history before the step is a prefix of the
\* history after it.
C30_HistoryAppendOnly ==
    [][\A p \in Proc :
        /\ Len(ledger'[p].transactions) >= Len(ledger[p].transactions)
        /\ SubSeq(ledger'[p].transactions, 1, Len(ledger[p].transactions))
             = ledger[p].transactions]_vars

\* Room roomId of P is complete: the room record, exactly the three default
\* roles for it, creator as its ADMIN, and its general channel.
RoomComplete(P, roomId, creator) ==
    /\ roomId \in DOMAIN P.rooms
    /\ P.rooms[roomId].createdBy = creator
    /\ {k \in DOMAIN P.roles : P.roles[k].roomId = roomId}
         = {RoleId(roomId, n) : n \in {"MEMBER", "MODERATOR", "ADMIN"}}
    /\ \A n \in {"MEMBER", "MODERATOR", "ADMIN"} :
          /\ P.roles[RoleId(roomId, n)].name = n
          /\ P.roles[RoleId(roomId, n)].permissions = DEFAULT_PERMISSIONS(n)
    /\ MemberKey(roomId, creator) \in DOMAIN P.members
    /\ P.members[MemberKey(roomId, creator)].role = RoleId(roomId, "ADMIN")
    /\ P.members[MemberKey(roomId, creator)].roomId = roomId
    /\ ChannelId(roomId, "general") \in DOMAIN P.channels
    /\ P.channels[ChannelId(roomId, "general")].roomId = roomId

\* Nothing of room roomId is in P.
RoomAbsent(P, roomId) ==
    /\ roomId \notin DOMAIN P.rooms
    /\ \A k \in DOMAIN P.roles : P.roles[k].roomId # roomId
    /\ \A k \in DOMAIN P.members : P.members[k].roomId # roomId
    /\ \A k \in DOMAIN P.channels : P.channels[k].roomId # roomId

\* C31: createRoom is one step that takes the authority from a state with
\* nothing of the room to a state with the room, exactly its three default
\* roles, its creator as ADMIN and its general channel; what belongs to other
\* rooms is untouched.
C31_CreateRoomAtomic ==
    [][\A p \in Proc, r \in RoomIds, u \in Users :
        (r \notin DOMAIN perm[p].rooms /\ r \in DOMAIN perm'[p].rooms /\ CreateRoom(p, r, u))
          => /\ RoomAbsent(perm[p], r)
             /\ RoomComplete(perm'[p], r, u)
             /\ \A o \in DOMAIN perm[p].rooms : perm'[p].rooms[o] = perm[p].rooms[o]
             /\ \A k \in DOMAIN perm[p].channels : perm'[p].channels[k] = perm[p].channels[k]
             /\ \A k \in DOMAIN perm[p].members : perm'[p].members[k] = perm[p].members[k]]_vars

\* A second room has just been created next to an existing one.
C31_Witness ==
    /\ DOMAIN perm["w"].rooms = RoomIds
    /\ \A r \in RoomIds : RoomComplete(perm["w"], r, perm["w"].rooms[r].createdBy)
    /\ lastResult["w"] = "state"

\* C32: the registry's updateFromOperation applied to a REGISTER_DEVICE
\* envelope adds the device to the master key's set and returns true whatever
\* its authSignature is, also when the signature does not verify for the pair.
C32_ReplayTrustsLog ==
    [][\A p \in Proc, m \in MasterKeys, d \in DeviceKeys, sig \in Signatures :
        (received'[p] = RegisterData(m, d, sig) /\ IdentityUpdateFromOperation(p, m, d, sig))
          => /\ m \in DOMAIN authorizedDevices'[p]
             /\ d \in authorizedDevices'[p][m]
             /\ authorizedDevices'[p] = addDevice(authorizedDevices[p], m, d)
             /\ lastResult'[p] = "true"]_vars

\* The registry has just applied an envelope whose signature does not verify
\* (the write path rejects the same triple), and the device is authorized.
C32_Witness ==
    /\ received["w"].type = "REGISTER_DEVICE"
    /\ ~verify(received["w"].devicePublicKey, received["w"].authSignature,
               received["w"].masterPublicKey)
    /\ authorizationRejected([isBuffer |-> TRUE, hex |-> received["w"].masterPublicKey],
                             [isBuffer |-> TRUE, hex |-> received["w"].devicePublicKey],
                             [isBuffer |-> TRUE, hex |-> received["w"].authSignature])
    /\ received["w"].masterPublicKey \in DOMAIN authorizedDevices["w"]
    /\ received["w"].devicePublicKey \in authorizedDevices["w"][received["w"].masterPublicKey]
    /\ authorizedDevices["w"][received["w"].masterPublicKey] = {received["w"].devicePublicKey}
    /\ DOMAIN authorizedDevices["w"] = {received["w"].masterPublicKey}
    /\ lastResult["w"] = "true"

\* An entry the replay loop cannot use: a null value, a string that is not
\* JSON, or an envelope without system or without data.
Malformed(v) == ~parses(v) \/ v.system = Undefined \/ v.data = NoData

\* A currency envelope with system, data and timestamp.
WellFormedCurrency(v) ==
    parses(v) /\ v.system = "currency" /\ v.data # NoData /\ v.timestamp # 0

\* C33: on any view, entries that cannot be used included, every invocation
\* of initialize (scheduled or forced) reaches its end and the ledger becomes
\* initialized; each iteration moves on to the next entry, a malformed entry
\* leaves the ledger as it was, a well-formed currency entry that is not a
\* duplicate is applied, and the flag is set only by an invocation that has
\* visited every entry of the view.
C33_ReplayTerminatesSkippingMalformed ==
    /\ <>(ledger["w"].isInitialized /\ inits["w"] = <<>>)
    /\ [][/\ \A k \in 1..MaxInits :
               (/\ inits'["w"] # inits["w"]
                /\ k <= Len(inits["w"])
                /\ inits["w"][k].phase = "loop"
                /\ InitStep("w", k))
                 => LET v == view["w"][inits["w"][k].i + 1] IN
                    /\ Len(inits'["w"]) = Len(inits["w"])
                    /\ inits'["w"][k].i = inits["w"][k].i + 1
                    /\ Malformed(v) => ledger'["w"] = ledger["w"]
                    /\ (/\ WellFormedCurrency(v)
                        /\ generateOperationId(v) \notin ledger["w"].processedOperations)
                         => ledger'["w"] =
                              markProcessed(updateFromOperation(ledger["w"], config, v), v)
          /\ (ledger'["w"].isInitialized /\ ~ledger["w"].isInitialized)
                => \E k \in 1..Len(inits["w"]) :
                      /\ inits["w"][k].phase = "update"
                      /\ inits["w"][k].i = Len(view["w"])]_vars

\* The ledger is initialized from a view whose first entry is malformed and
\* whose second entry is a well-formed mint, which has been applied.
C33_Witness ==
    /\ ledger["w"].isInitialized
    /\ inits["w"] = <<>>
    /\ Len(view["w"]) = 2
    /\ Malformed(view["w"][1])
    /\ WellFormedCurrency(view["w"][2])
    /\ ledger["w"].balances["a"] = MaxAmount
    /\ Len(ledger["w"].transactions) = 1

\* C34: an envelope for which generateOperationId returns null (it lacks
\* system, data or timestamp) is dropped by the replay loop: the iteration
\* that reads it changes no balance, no totalSupply and adds no history record.
C34_NullFingerprintDropped ==
    [][\A k \in 1..MaxInits :
        (/\ inits'["w"] # inits["w"]
         /\ k <= Len(inits["w"])
         /\ inits["w"][k].phase = "loop"
         /\ parses(view["w"][inits["w"][k].i + 1])
         /\ generateOperationId(view["w"][inits["w"][k].i + 1]) = NullId
         /\ InitStep("w", k))
          => /\ ledger'["w"].balances = ledger["w"].balances
             /\ ledger'["w"].totalSupply = ledger["w"].totalSupply
             /\ ledger'["w"].transactions = ledger["w"].transactions]_vars

\* C35: a mint issued in the millisecond of an earlier mint with the same
\* fields has the dedup key of the earlier one; the write path applies it
\* locally all the same (one more history record, the balance raised again)
\* and appends an envelope equal to the earlier one, and a replay that reads
\* an entry whose key is already processed leaves the ledger as it is.
C35_SameMillisecondCollision ==
    [][\A p \in Proc :
        LET op == Envelope("currency", MintData("a", 1), now) IN
        /\ (/\ pending'[p] # pending[p]
            /\ generateOperationId(op) \in ledger[p].processedOperations
            /\ Mint(p, "a", 1))
             => /\ ledger'[p] = markProcessed(mintInternal(ledger[p], config, "a", 1), op)
                /\ Len(ledger'[p].transactions) = Len(ledger[p].transactions) + 1
                /\ ledger[p].totalSupply + 1 <= config.maxSupply
                      => ledger'[p].balances["a"] = ledger[p].balances["a"] + 1
                /\ pending'[p] = Append(pending[p], op)
        /\ \A k \in 1..MaxInits :
              (/\ inits'[p] # inits[p]
               /\ k <= Len(inits[p])
               /\ inits[p][k].phase = "loop"
               /\ generateOperationId(view[p][inits[p][k].i + 1])
                     \in ledger[p].processedOperations
               /\ InitStep(p, k))
                => ledger'[p] = ledger[p]]_vars

\* Before the restart the instance reported both mints; the replay of the
\* two equal envelopes has applied one of them.
C35_Witness ==
    /\ prev["w"].restarts = 1
    /\ prev["w"].balances["a"] = 2
    /\ Len(view["w"]) = 2
    /\ view["w"][1] = view["w"][2]
    /\ WellFormedCurrency(view["w"][1])
    /\ ledger["w"].isInitialized
    /\ inits["w"] = <<>>
    /\ ledger["w"].balances["a"] = 1
    /\ Len(ledger["w"].transactions) = 1

\* The user is a member of the room with a role of the room's role table
\* that lacks the flag operations of this type require.
MemberLacksFlag(P, roomId, user, type) ==
    /\ MemberKey(roomId, user) \in DOMAIN P.members
    /\ P.members[MemberKey(roomId, user)].role \in DOMAIN P.roles
    /\ ~HasRequiredFlag(P.roles[P.members[MemberKey(roomId, user)].role].permissions, type)

\* C36: a call of a room object's addMember, updateMemberRole or
\* createChannel by a member whose role lacks the flag the operation requires
\* is rejected: no member's role and no channel of the room changes.
C36_HandleAuthorizesIssuer ==
    [][\A p \in Proc, i \in Users, r \in RoomIds :
        perm'[p] # perm[p]
          => /\ MemberLacksFlag(perm[p], r, i, "UPDATE_MEMBER_ROLE")
                  => \A u \in Users, n \in RoleNames :
                        ~IssuedUpdateMemberRole(p, i, r, u, n)
             /\ MemberLacksFlag(perm[p], r, i, "ADD_MEMBER")
                  => \A u \in Users : \A role \in RoleOptions(r) :
                        ~IssuedAddMember(p, i, r, u, role)
             /\ MemberLacksFlag(perm[p], r, i, "CREATE_CHANNEL")
                  => \A c \in ChannelNames : ~IssuedCreateChannel(p, i, r, c)]_vars

\* C37: once a mint, transfer or burn call has returned true, the scheduled
\* initialize and a forced one leave every balance the ledger reports as the
\* call left it.
C37_WriteSurvivesInitialize ==
    [][\A p \in Proc :
        (/\ lastResult[p] = "true"
         /\ ledger'[p] # ledger[p]
         /\ TimerFire(p) \/ ForceInitialize(p))
          => \A a \in Addr : balanceOf(ledger'[p], a) = balanceOf(ledger[p], a)]_vars

\* C38: a CREATE_CHANNEL, DELETE_CHANNEL or UPDATE_CHANNEL operation that is
\* authorized through the actor's membership in room op.roomId leaves every
\* channel of another room as it was.
C38_ChannelOpsStayInRoom ==
    [][\A p \in Proc : \A op \in ApplyOps :
        (/\ op.type \in {"CREATE_CHANNEL", "DELETE_CHANNEL", "UPDATE_CHANNEL"}
         /\ perm'[p].channels # perm[p].channels
         /\ ~Unauthorized(perm[p], op)
         /\ PermApply(p, op))
          => \A k \in DOMAIN perm[p].channels :
                perm[p].channels[k].roomId # op.roomId
                  => /\ k \in DOMAIN perm'[p].channels
                     /\ perm'[p].channels[k] = perm[p].channels[k]]_vars

\* C40: applying CREATE_ROOM with the roomId of an existing room leaves the
\* room's creator, the roles of its members and its channels as they were.
C40_CreateExistingRoomIsNoOp ==
    [][\A p \in Proc, r \in RoomIds, u \in Users :
        (/\ r \in DOMAIN perm[p].rooms
         /\ perm'[p] # perm[p]
         /\ PermApply(p, PermOp("CREATE_ROOM", r, u, "-", <<>>, <<>>, "-")))
          => /\ perm'[p].rooms[r].createdBy = perm[p].rooms[r].createdBy
             /\ perm'[p].members = perm[p].members
             /\ perm'[p].channels = perm[p].channels]_vars

\* C39: an envelope for which the ledger's or the inventory's
\* updateFromOperation returns false has changed no balance, no holding, no
\* totalSupply and no currentSupply.
C39_FalseMeansNoChange ==
    [][\A p \in Proc :
        (/\ calls'[p] # calls[p]
         /\ lastResult'[p] = "false"
         /\ \E op \in UpdateEnvelopes :
               LedgerUpdateFromOperation(p, op) \/ ResourceUpdateFromOperation(p, op))
          => /\ ledger'[p].balances = ledger[p].balances
             /\ ledger'[p].totalSupply = ledger[p].totalSupply
             /\ inventory'[p].holdings = inventory[p].holdings
             /\ inventory'[p].resources = inventory[p].resources]_vars

====
